---------------------------- MODULE Spec2Model ----------------------------
(***************************************************************************)
(* Model of the activity synchronisation service: server.js (HTTP         *)
(* handlers, background sync, normaliser, polyline decoder, country       *)
(* resolver, rate limiter) and dynamodb.js (store gateway).                *)
(*                                                                         *)
(* Every `await` of the source is a suspension point: an action of the    *)
(* model is the code that runs between two awaits of one invocation.      *)
(* Strings that the code inspects (names, polylines) are sequences of     *)
(* one-character strings or of character codes.  Coordinates are kept as  *)
(* the integer accumulators of decodePolyline, i.e. degrees * 1e5.        *)
(***************************************************************************)
EXTENDS Integers, Sequences, FiniteSets, TLC

(***************************************************************************)
(* JavaScript primitives used by the code                                  *)
(***************************************************************************)

\* null / undefined of a string-valued field
Null == "null"

\* 2^n for small n
RECURSIVE Pow2(_)
Pow2(n) == IF n = 0 THEN 1 ELSE 2 * Pow2(n - 1)

\* A 32-bit integer as the set of its one-bits (bit 31 is the sign bit).
Bits5(n) == {b \in 0..4 : (n \div Pow2(b)) % 2 = 1}

\* x << s on 32-bit integers (the shift count is taken modulo 32)
Shl32(bits, s) == {b + (s % 32) : b \in {c \in bits : c + (s % 32) <= 31}}

\* x >> 1 on 32-bit integers (arithmetic: the sign bit is kept)
Sar1(bits) == {b - 1 : b \in bits \ {0}} \cup (bits \cap {31})

\* ~x on 32-bit integers
Not32(bits) == (0..31) \ bits

\* the sum of 2^(b - lo) over the one-bits b of lo..hi, by halves
RECURSIVE SumPow2In(_, _, _)
SumPow2In(bits, lo, hi) ==
    IF lo = hi THEN (IF lo \in bits THEN 1 ELSE 0)
    ELSE LET mid == (lo + hi) \div 2
         IN  SumPow2In(bits, lo, mid)
                 + Pow2(mid + 1 - lo) * SumPow2In(bits, mid + 1, hi)

SumPow2(bits) == SumPow2In(bits, 0, 31)

\* the signed value of a 32-bit integer
ToInt(bits) ==
    IF 31 \in bits THEN (SumPow2(bits \ {31}) - Pow2(30)) - Pow2(30)
    ELSE SumPow2(bits)

UpperCase == <<"A","B","C","D","E","F","G","H","I","J","K","L","M",
               "N","O","P","Q","R","S","T","U","V","W","X","Y","Z">>
LowerCase == <<"a","b","c","d","e","f","g","h","i","j","k","l","m",
               "n","o","p","q","r","s","t","u","v","w","x","y","z">>

\* String.prototype.toLowerCase on a sequence of characters
toLowerCase(s) ==
    [i \in 1..Len(s) |->
        IF \E k \in 1..26 : UpperCase[k] = s[i]
        THEN LowerCase[CHOOSE k \in 1..26 : UpperCase[k] = s[i]]
        ELSE s[i]]

\* String.prototype.includes
includes(s, sub) ==
    \E i \in 1..(Len(s) - Len(sub) + 1) : SubSeq(s, i, i + Len(sub) - 1) = sub

\* Number.prototype.toString for n >= 0, as a sequence of characters
DigitChars == <<"0","1","2","3","4","5","6","7","8","9">>
RECURSIVE toStr(_)
toStr(n) ==
    IF n < 10 THEN <<DigitChars[n + 1]>>
    ELSE toStr(n \div 10) \o <<DigitChars[(n % 10) + 1]>>

\* String.prototype.padStart(2, "0")
padStart2(s) == IF Len(s) < 2 THEN <<"0">> \o s ELSE s

(***************************************************************************)
(* server.js: pure helpers                                                 *)
(***************************************************************************)

\* mapStravaType: typeMap[stravaType] || null
mapStravaType(stravaType) ==
    CASE stravaType = "Run" -> "run"
      [] stravaType = "Ride" -> "ride"
      [] stravaType = "Swim" -> "swim"
      [] stravaType = "Walk" -> "run"
      [] stravaType = "Hike" -> "run"
      [] stravaType = "TrailRun" -> "run"
      [] OTHER -> Null

\* formatDuration: "MM:SS", or "HH:MM:SS" when hours > 0
formatDuration(seconds) ==
    LET hours == seconds \div 3600
        minutes == (seconds % 3600) \div 60
        secs == seconds % 60
    IN  IF hours > 0
        THEN padStart2(toStr(hours)) \o <<":">> \o padStart2(toStr(minutes))
                 \o <<":">> \o padStart2(toStr(secs))
        ELSE padStart2(toStr(minutes)) \o <<":">> \o padStart2(toStr(secs))

\* (distance / 1000).toFixed(1) for a whole number of metres that is not
\* a tie (metres % 100 # 50): kilometres rounded to one decimal
distanceKm(metres) ==
    LET tenths == (metres + 50) \div 100
    IN  toStr(tenths \div 10) \o <<".">> \o toStr(tenths % 10)

\* One do/while of decodePolyline: reads 5-bit groups from position index
\* (1-based) until a group without the continuation bit.  charCodeAt past
\* the end is NaN: NaN & 0x1f is 0 and NaN >= 0x20 is false.
RECURSIVE readGroup(_, _, _, _)
readGroup(encoded, index, shift, result) ==
    LET isNaN == index > Len(encoded)
        byte == IF isNaN THEN 0 ELSE encoded[index] - 63
        chunk == IF isNaN THEN {} ELSE Bits5(byte % 32)
        result2 == result \cup Shl32(chunk, shift)
    IN  IF ~isNaN /\ byte >= 32
        THEN readGroup(encoded, index + 1, shift + 5, result2)
        ELSE [index |-> index + 1, result |-> result2]

\* variant: the sign bit of the zig-zag value is dropped
zigzagUnsigned(result) == ToInt(Sar1(result))

\* (result & 1) !== 0 ? ~(result >> 1) : result >> 1
zigzag(result) ==
    IF 0 \in result THEN ToInt(Not32(Sar1(result))) ELSE ToInt(Sar1(result))

RECURSIVE decodeFrom(_, _, _, _)
decodeFrom(encoded, index, lat, lng) ==
    IF index > Len(encoded) THEN <<>>
    ELSE LET g1 == readGroup(encoded, index, 0, {})
             lat2 == lat + zigzag(g1.result)
             g2 == readGroup(encoded, g1.index, 0, {})
             lng2 == lng + zigzag(g2.result)
         IN  <<[lat |-> lat2, lng |-> lng2]>>
                 \o decodeFrom(encoded, g2.index, lat2, lng2)

\* decodePolyline: encoded is the sequence of character codes
decodePolyline(encoded) == decodeFrom(encoded, 1, 0, 0)

\* getCountryFromCoordinateRanges, on degrees * 1e5
getCountryFromCoordinateRanges(lat, lng) ==
    IF lat >= 3580000 /\ lat <= 7120000 /\ lng >= -3130000 /\ lng <= 6910000
    THEN CASE lat >= 4230000 /\ lat <= 5110000 /\ lng >= -510000 /\ lng <= 820000
                -> "France"
           [] lat >= 4730000 /\ lat <= 5510000 /\ lng >= 590000 /\ lng <= 1500000
                -> "Germany"
           [] lat >= 4990000 /\ lat <= 6090000 /\ lng >= -820000 /\ lng <= 180000
                -> "United Kingdom"
           [] lat >= 3600000 /\ lat <= 4710000 /\ lng >= 660000 /\ lng <= 1850000
                -> "Italy"
           [] lat >= 3590000 /\ lat <= 4380000 /\ lng >= -950000 /\ lng <= -620000
                -> "Spain"
           [] OTHER -> "Europe"
    ELSE CASE lat >= 2510000 /\ lat <= 4940000 /\ lng >= -12500000 /\ lng <= -6690000
                -> "United States"
           [] lat >= 4170000 /\ lat <= 8310000 /\ lng >= -14100000 /\ lng <= -5260000
                -> "Canada"
           [] lat >= 2560000 /\ lat <= 2630000 /\ lng >= 5040000 /\ lng <= 5080000
                -> "Bahrain"
           [] lat >= -4700000 /\ lat <= -1000000 /\ lng >= 11300000 /\ lng <= 15400000
                -> "Australia"
           [] OTHER -> "Other"

(***************************************************************************)
(* Upstream provider: the activities it can return                         *)
(***************************************************************************)

\* encoded first points and a one-unit step (delta 1e-5, 1e-5)
HeadStockholm == <<111, 123, 98, 105, 74, 95, 106, 102, 109, 66>>
HeadBahrain == <<95, 99, 117, 125, 67, 95, 121, 121, 115, 72>>
StepOne == <<65, 65>>

RECURSIVE Steps(_)
Steps(n) == IF n <= 0 THEN <<>> ELSE StepOne \o Steps(n - 1)

\* a well-formed encoding of n points
Poly(head, n) == IF n <= 0 THEN <<>> ELSE head \o Steps(n - 1)

\* A raw upstream activity.  A missing or empty polyline string is <<>>
\* (both are falsy); start_latlng keeps null (present = FALSE) apart from
\* the empty array, which only the list path treats alike.
Raw(id, name, type, trainer, manual, startPresent, startValue, summary, full, wt) ==
    [id |-> id, name |-> name, type |-> type, trainer |-> trainer,
     manual |-> manual, commute |-> FALSE,
     start_latlng |-> [present |-> startPresent, value |-> startValue],
     map |-> [present |-> TRUE, summary_polyline |-> summary, polyline |-> full],
     distance |-> 12345, moving_time |-> 3725, workout_type |-> wt,
     total_elevation_gain |-> 120, average_speed |-> 3, start_date |-> "2024-05-01"]

StartStockholm == <<5933000, 1806000>>
StartBahrain == <<2600000, 5060000>>

NameMorningRun == <<"M","o","r","n","i","n","g"," ","R","u","n">>
NameCityRace == <<"C","i","t","y"," ","R","a","c","e">>
NameZwift == <<"Z","W","I","F","T"," ","l","a","p","s">>
NameYoga == <<"Y","o","g","a">>
NameLunch == <<"L","u","n","c","h">>

\* the upstream catalogue, by activity identifier
Catalogue ==
    << Raw(1, NameMorningRun, "Run", FALSE, FALSE, TRUE, StartBahrain,
           Poly(HeadBahrain, 4), Poly(HeadBahrain, 22), 0),
       Raw(2, NameCityRace, "Ride", FALSE, FALSE, TRUE, StartBahrain,
           Poly(HeadBahrain, 22), Poly(HeadBahrain, 23), 0),
       Raw(3, NameZwift, "Ride", FALSE, FALSE, TRUE, StartStockholm,
           Poly(HeadStockholm, 3), Poly(HeadStockholm, 21), 0),
       Raw(4, NameLunch, "Run", TRUE, FALSE, TRUE, StartBahrain,
           Poly(HeadBahrain, 5), Poly(HeadBahrain, 22), 0),
       Raw(5, NameYoga, "Yoga", FALSE, FALSE, TRUE, StartBahrain,
           Poly(HeadBahrain, 5), Poly(HeadBahrain, 5), 0),
       Raw(6, NameLunch, "Run", FALSE, FALSE, TRUE, StartBahrain,
           Poly(HeadBahrain, 2), Poly(HeadBahrain, 2), 1),
       Raw(7, NameLunch, "VirtualRide", FALSE, FALSE, TRUE, StartBahrain,
           Poly(HeadBahrain, 5), Poly(HeadBahrain, 22), 0),
       Raw(8, NameLunch, "Swim", FALSE, FALSE, TRUE, StartBahrain,
           <<>>, Poly(HeadBahrain, 4), 0),
       Raw(9, NameLunch, "Hike", FALSE, TRUE, FALSE, <<>>,
           Poly(HeadBahrain, 5), Poly(HeadBahrain, 5), 0) >>

\* bound: how many plain activities the upstream holds beyond the catalogue
MaxBulk == 52

\* the activity the upstream holds under an identifier
upstreamActivity(id) ==
    IF id <= Len(Catalogue) THEN Catalogue[id]
    ELSE Raw(id, NameLunch, "Run", FALSE, FALSE, TRUE, StartBahrain,
             Poly(HeadBahrain, 3), Poly(HeadBahrain, 3), 0)
NumUpstream == Len(Catalogue) + MaxBulk
UpstreamIds == 1..NumUpstream

\* What the country resolver can return for a coordinate: the answer of a
\* network tier, or the range table's (see getCountryFromCoordinates).
GeocoderAnswer(lat, lng) ==
    IF lat >= 5500000 THEN "Sweden"
    ELSE IF lat < 0 /\ lat >= -470000 /\ lng >= 3390000 /\ lng <= 4190000 THEN "Kenya"
    ELSE getCountryFromCoordinateRanges(lat, lng)
CountryResults(point) ==
    {GeocoderAnswer(point[1], point[2]),
     getCountryFromCoordinateRanges(point[1], point[2])}

(***************************************************************************)
(* server.js: Activity Normalizer (list view and detail view)              *)
(***************************************************************************)

Keyword(k) ==
    CASE k = 1 -> <<"z","w","i","f","t">>
      [] k = 2 -> <<"p","e","l","o","t","o","n">>
      [] k = 3 -> <<"v","i","r","t","u","a","l">>
      [] k = 4 -> <<"i","n","d","o","o","r">>
      [] k = 5 -> <<"t","r","a","i","n","e","r">>
      [] OTHER -> <<"t","r","e","a","d","m","i","l","l">>

\* variant: the keywords are looked for in the name as it is written
listSkipsVirtualCaseSensitive(activity) ==
    \/ activity.trainer
    \/ activity.manual
    \/ (activity.commute = FALSE /\ activity.trainer = TRUE)
    \/ activity.type = "VirtualRide"
    \/ activity.type = "VirtualRun"
    \/ \E k \in 1..6 : includes(activity.name, Keyword(k))
    \/ ~activity.start_latlng.present
    \/ Len(activity.start_latlng.value) = 0

\* the "Skip virtual activities" condition of fetchStravaActivities
listSkipsVirtual(activity) ==
    \/ activity.trainer
    \/ activity.manual
    \/ (activity.commute = FALSE /\ activity.trainer = TRUE)
    \/ activity.type = "VirtualRide"
    \/ activity.type = "VirtualRun"
    \/ \E k \in 1..6 : includes(toLowerCase(activity.name), Keyword(k))
    \/ ~activity.start_latlng.present
    \/ Len(activity.start_latlng.value) = 0

\* variant: the full polyline stands in for a missing summary polyline
listCoordinatesEitherPolyline(activity) ==
    IF activity.map.present /\ activity.map.summary_polyline # <<>>
    THEN decodePolyline(activity.map.summary_polyline)
    ELSE IF activity.map.present /\ activity.map.polyline # <<>>
    THEN decodePolyline(activity.map.polyline)
    ELSE <<>>

\* activity.map?.summary_polyline ? decodePolyline(...) : []
listCoordinates(activity) ==
    IF activity.map.present /\ activity.map.summary_polyline # <<>>
    THEN decodePolyline(activity.map.summary_polyline)
    ELSE <<>>

\* the decision of the list path for one record of a page
listDecision(activity) ==
    IF listSkipsVirtual(activity) THEN "skip_virtual"
    ELSE IF mapStravaType(activity.type) \notin {"run", "ride", "swim"} THEN "skip_type"
    ELSE IF \/ ~activity.map.present
            \/ (activity.map.summary_polyline = <<>> /\ activity.map.polyline = <<>>)
         THEN "skip_no_gps"
    ELSE IF Len(listCoordinates(activity)) < 3 THEN "skip_few_coordinates"
    ELSE "keep"

\* variant: slice(0, n + 1)
sliceHeadInclusive(s, n) == SubSeq(s, 1, IF Len(s) < n + 1 THEN Len(s) ELSE n + 1)

\* slice(0, n)
sliceHead(s, n) == SubSeq(s, 1, IF Len(s) < n THEN Len(s) ELSE n)

isRace(activity) ==
    \/ activity.workout_type = 1
    \/ includes(toLowerCase(activity.name), <<"r","a","c","e">>)

\* the point handed to the country resolver
countryDetectionPoint(coordinates) == <<coordinates[1].lat, coordinates[1].lng>>

\* processedActivity of fetchStravaActivities
processedActivity(activity, country) ==
    [id |-> activity.id,
     name |-> activity.name,
     type |-> mapStravaType(activity.type),
     distance |-> distanceKm(activity.distance),
     time |-> formatDuration(activity.moving_time),
     country |-> country,
     isRace |-> isRace(activity),
     coordinates |-> sliceHead(listCoordinates(activity), 20)]

\* variant: the detail checks without the trainer flag
detailSkipsVirtualNoTrainer(stravaActivity) ==
    \/ stravaActivity.manual
    \/ stravaActivity.type = "VirtualRide"
    \/ stravaActivity.type = "VirtualRun"
    \/ ~stravaActivity.start_latlng.present
    \/ ~stravaActivity.map.present
    \/ stravaActivity.map.polyline = <<>>

\* the "Virtual activity checks" of GET /activities/:id
detailSkipsVirtual(stravaActivity) ==
    \/ stravaActivity.trainer
    \/ stravaActivity.manual
    \/ stravaActivity.type = "VirtualRide"
    \/ stravaActivity.type = "VirtualRun"
    \/ ~stravaActivity.start_latlng.present
    \/ ~stravaActivity.map.present
    \/ stravaActivity.map.polyline = <<>>

detailCoordinates(stravaActivity) ==
    IF stravaActivity.map.present /\ stravaActivity.map.polyline # <<>>
    THEN decodePolyline(stravaActivity.map.polyline)
    ELSE <<>>

\* variant: the detail path looks for the name keywords as the list path does
detailDecisionWithKeywords(stravaActivity) ==
    IF \/ detailSkipsVirtual(stravaActivity)
       \/ \E k \in 1..6 : includes(toLowerCase(stravaActivity.name), Keyword(k))
    THEN "not_found_or_virtual"
    ELSE IF Len(detailCoordinates(stravaActivity)) < 3 THEN "insufficient_gps"
    ELSE "keep"

\* the decision of GET /activities/:id on the upstream activity
detailDecision(stravaActivity) ==
    IF detailSkipsVirtual(stravaActivity) THEN "not_found_or_virtual"
    ELSE IF Len(detailCoordinates(stravaActivity)) < 3 THEN "insufficient_gps"
    ELSE "keep"

\* detailedActivity of GET /activities/:id
detailedActivity(stravaActivity, athlete_id, country) ==
    [id |-> stravaActivity.id,
     athlete_id |-> athlete_id,
     name |-> stravaActivity.name,
     type |-> mapStravaType(stravaActivity.type),
     distance |-> distanceKm(stravaActivity.distance),
     time |-> formatDuration(stravaActivity.moving_time),
     country |-> country,
     isRace |-> isRace(stravaActivity),
     coordinates |-> detailCoordinates(stravaActivity),
     elevation_gain |-> stravaActivity.total_elevation_gain,
     average_speed |-> stravaActivity.average_speed,
     start_date |-> stravaActivity.start_date]

\* { ...record, [field]: value }
spread(record, field, value) ==
    [f \in DOMAIN record \cup {field} |-> IF f = field THEN value ELSE record[f]]

\* The normaliser applied to every upstream activity, evaluated once.  The
\* country (and, in the detail view, the athlete) is filled in when the
\* resolver has answered: it feeds that field only.
listView(activity) ==
    LET decision == listDecision(activity)
    IN  [decision |-> decision,
         point |-> IF decision = "keep"
                   THEN countryDetectionPoint(listCoordinates(activity)) ELSE <<>>,
         processed |-> IF decision = "keep"
                       THEN processedActivity(activity, Null) ELSE <<>>]

detailView(stravaActivity) ==
    LET decision == detailDecision(stravaActivity)
    IN  [decision |-> decision,
         point |-> IF decision = "keep"
                   THEN countryDetectionPoint(detailCoordinates(stravaActivity))
                   ELSE <<>>,
         detailed |-> IF decision = "keep"
                      THEN detailedActivity(stravaActivity, Null, Null) ELSE <<>>]

RECURSIVE ListViews(_)
ListViews(n) ==
    IF n = 0 THEN <<>> ELSE Append(ListViews(n - 1), listView(upstreamActivity(n)))
RECURSIVE DetailViews(_)
DetailViews(n) ==
    IF n = 0 THEN <<>> ELSE Append(DetailViews(n - 1), detailView(upstreamActivity(n)))

ListTable == ListViews(NumUpstream)
DetailTable == DetailViews(NumUpstream)

(***************************************************************************)
(* dynamodb.js: storeActivities as a resumable job, and the auth expiry    *)
(***************************************************************************)

batchSize == 25
maxRetries == 3
perPage == 50
pageDelay == 200

Min(a, b) == IF a < b THEN a ELSE b

\* variant: only full batches are built
RECURSIVE makeBatchesFloor(_, _)
makeBatchesFloor(activities, i) ==
    IF i + batchSize <= Len(activities)
    THEN <<SubSeq(activities, i + 1, i + batchSize)>>
             \o makeBatchesFloor(activities, i + batchSize)
    ELSE <<>>

\* for (i = 0; i < activities.length; i += batchSize)
\*     batches.push(activities.slice(i, i + batchSize))
RECURSIVE makeBatches(_, _)
makeBatches(activities, i) ==
    IF i < Len(activities)
    THEN <<SubSeq(activities, i + 1, Min(i + batchSize, Len(activities)))>>
             \o makeBatches(activities, i + batchSize)
    ELSE <<>>

\* sends counts the dynamodb.send calls of the current batch that have settled
NoJob == [batches |-> <<>>, n |-> 0, i |-> 0, retryCount |-> 0,
          totalStored |-> 0, sends |-> 0, status |-> "none"]

\* storeActivities up to its first await: the batches are built, and the
\* first batch (if any) is about to be sent.  i is the 1-based batch index.
storeActivitiesStart(activities) ==
    LET batches == makeBatches(activities, 0)
    IN  [batches |-> batches, n |-> Len(activities), i |-> 1, retryCount |-> 0,
         totalStored |-> 0, sends |-> 0,
         status |-> IF Len(batches) = 0 THEN "returned" ELSE "sending"]

\* const delayMs = activities.length > 500 ? 1000 : 500
delayMs(job) == IF job.n > 500 THEN 1000 ELSE 500

\* variant: a linear backoff
backoffDelayLinear(retryCount) == retryCount * 1000

\* Math.pow(2, retryCount) * 1000
backoffDelay(retryCount) == Pow2(retryCount) * 1000

\* dynamodb.send(command) resolved: count the batch, go to the next one
storeActivitiesOnSuccess(job) ==
    [job EXCEPT !.totalStored = @ + Len(job.batches[job.i]),
                !.i = @ + 1,
                !.retryCount = 0,
                !.sends = 0,
                !.status = IF job.i + 1 > Len(job.batches)
                           THEN "returned" ELSE "sending"]

\* variant: every store error is retried while retries are left
retriesAnyError(job, errorName) == job.retryCount < maxRetries

\* the retry condition of the catch block
retries(job, errorName) ==
    errorName = "ProvisionedThroughputExceededException" /\ job.retryCount < maxRetries

\* dynamodb.send(command) rejected with an error named errorName
storeActivitiesOnError(job, errorName) ==
    IF retries(job, errorName)
    THEN [job EXCEPT !.retryCount = @ + 1, !.sends = @ + 1]
    ELSE [job EXCEPT !.status = "threw", !.sends = @ + 1]

\* the Item of a PutRequest: { ...activity, stored_at }
putItem(activity, now) == spread(activity, "stored_at", now)

\* variant: a put leaves an item that is already there (first writer wins)
RECURSIVE putAllIfAbsent(_, _, _)
putAllIfAbsent(table, batch, now) ==
    IF batch = <<>> THEN table
    ELSE LET item == putItem(Head(batch), now)
             ids == DOMAIN table \cup {item.id}
         IN  putAllIfAbsent([k \in ids |-> IF k \in DOMAIN table THEN table[k] ELSE item],
                            Tail(batch), now)

RECURSIVE putAll(_, _, _)
putAll(table, batch, now) ==
    IF batch = <<>> THEN table
    ELSE LET item == putItem(Head(batch), now)
             ids == DOMAIN table \cup {item.id}
         IN  putAll([k \in ids |-> IF k = item.id THEN item ELSE table[k]],
                    Tail(batch), now)

\* variant: the margin is exclusive
tokenExpiringStrict(authData, now) ==
    authData.expires_at # 0 /\ now + 300 > authData.expires_at

\* the refresh condition of getValidAccessToken: expiresAt && now + 300 >= expiresAt
tokenExpiring(authData, now) ==
    authData.expires_at # 0 /\ now + 300 >= authData.expires_at

\* Item of storeAuthToken (created_at, updated_at are both the time of the call)
authItem(athleteId, tokenData, now) ==
    [athlete_id |-> athleteId,
     access_token |-> tokenData.access_token,
     refresh_token |-> tokenData.refresh_token,
     expires_at |-> tokenData.expires_at,
     athlete_info |-> tokenData.athlete_info,
     created_at |-> now, updated_at |-> now]

\* getActivityCount: items of the athlete-index with this athlete_id
countByOwner(table, athleteId) ==
    Cardinality({k \in DOMAIN table : table[k].athlete_id = athleteId})

(***************************************************************************)
(* State                                                                   *)
(***************************************************************************)

VARIABLES
    store,       \* activities table: identifier -> item (a partial function)
    auth,        \* auth table: athlete_id string -> item (a partial function)
    listing,     \* upstream: the pages of the athlete's activity listing
    clock,       \* Date.now(), in milliseconds
    proc,        \* one record per request: handler and background task
    lastApiCall, \* rate limiter: last-call stamp per geocoding tier
    caller       \* one record per country resolution in flight

vars == <<store, auth, listing, clock, proc, lastApiCall, caller>>

\* bounds of the model: how many sync runs and how many detail requests
\* are in flight at a time (the service takes any number, one after another)
MaxSyncs == 1
MaxDetails == 1

SyncProcs == 1..MaxSyncs
DetailProcs == (MaxSyncs + 1)..(MaxSyncs + MaxDetails)
Procs == SyncProcs \cup DetailProcs

\* JavaScript values of the athlete_id parameter: a number or a string
\* with decimal form v, or undefined
JsNum(v) == [k |-> "number", v |-> v]
JsStr(v) == [k |-> "string", v |-> v]
Undefined == [k |-> "undefined", v |-> ""]
falsy(value) == value.k = "undefined" \/ value.v = "" \/ (value.k = "number" /\ value.v = "0")
toString(value) == value.v

\* variant: every race filter other than "all" asks for races
getActivitiesRacesOnly(table, athleteId, filters) ==
    LET byType == ~falsy(filters.activity_type) /\ filters.activity_type.v # "all"
        byRace == ~falsy(filters.race_filter) /\ filters.race_filter.v # "all"
    IN  {table[k] : k \in {j \in DOMAIN table :
            /\ table[j].athlete_id = athleteId
            /\ byType => table[j].type = filters.activity_type.v
            /\ byRace => table[j].isRace = TRUE}}

\* getActivities: the items of the athlete-index with this athlete_id that
\* pass the FilterExpression (result.Items, as a set: the index gives them
\* in no order the code relies on)
getActivities(table, athleteId, filters) ==
    LET byType == ~falsy(filters.activity_type) /\ filters.activity_type.v # "all"
        byRace == ~falsy(filters.race_filter) /\ filters.race_filter.v # "all"
        raceValue == filters.race_filter.v = "race"
    IN  {table[k] : k \in {j \in DOMAIN table :
            /\ table[j].athlete_id = athleteId
            /\ byType => table[j].type = filters.activity_type.v
            /\ byRace => table[j].isRace = raceValue}}

EmptyTable == [k \in {} |-> 0]

NoTokenData == [access_token |-> Null, refresh_token |-> Null, expires_at |-> 0,
                athlete_info |-> Null]

IdleProc(kind) ==
    [kind |-> kind, pc |-> "idle", athlete_id |-> Undefined, full_sync |-> FALSE,
     id |-> 0, accessToken |-> Null, tokenData |-> NoTokenData,
     page |-> 0, queue |-> <<>>, activities |-> <<>>, i |-> 0,
     newActivitiesToStore |-> <<>>, job |-> NoJob,
     storedCount |-> 0, skippedCount |-> 0, totalActivities |-> 0,
     slept |-> 0, error |-> Null,
     filters |-> [activity_type |-> Undefined, race_filter |-> Undefined],
     items |-> {},
     log |-> <<>>]

\* Entries of a request's log: the responses it has sent, the requests it
\* has issued to the store and to the upstream, and the batch writes that
\* have settled for good (a write that is retried is counted in job.sends).
\* slept is the setTimeout the request has awaited since its last awaited
\* call settled (0 when none).
Respond(status, body) == [e |-> "respond", status |-> status, body |-> body]
ErrorBody(text) == [error |-> text]
AuthGet == [e |-> "auth_get"]
RefreshPost == [e |-> "refresh_post"]
AuthPut == [e |-> "auth_put"]
ListGet(page) == [e |-> "list_get", page |-> page, per_page |-> perPage]
Geocode(point) == [e |-> "geocode", point |-> point]
ExistsGet(id) == [e |-> "exists_get", id |-> id]
BatchWrite(i, result) == [e |-> "batch_write", batch |-> i, result |-> result]
CountQuery == [e |-> "count_query"]
StoreGet(id) == [e |-> "store_get", id |-> id]
ActivityGet(id) == [e |-> "activity_get", id |-> id]
Caught(kind) == [e |-> "caught", kind |-> kind]

Events(r, e) == {k \in 1..Len(r.log) : r.log[k].e = e}

(***************************************************************************)
(* server.js: the handlers, cut at their awaits                            *)
(***************************************************************************)

\* res.json of POST /activities/sync
syncAck(full_sync, now) ==
    [message |-> "Sync started in background",
     sync_type |-> IF full_sync THEN "full" ELSE "incremental",
     status |-> "in_progress",
     started_at |-> now]

\* fetchStravaActivities: the records of the page (by identifier) that are skipped before
\* the next one that needs a country (each kept record awaits the resolver)
RECURSIVE skipExcluded(_)
skipExcluded(queue) ==
    IF queue = <<>> THEN <<>>
    ELSE IF ListTable[Head(queue)].decision = "keep" THEN queue
    ELSE skipExcluded(Tail(queue))

\* variant: a page that keeps no record ends the fetch phase
continuePageStopsOnExcluded(r, queue) ==
    LET rest == skipExcluded(queue)
    IN  IF rest # <<>>
        THEN [r EXCEPT !.pc = "getCountry", !.queue = rest,
                       !.log = Append(@, Geocode(ListTable[Head(rest)].point))]
        ELSE IF r.queue = <<>>
        THEN [r EXCEPT !.pc = "getActivityCount", !.log = Append(@, CountQuery)]
        ELSE [r EXCEPT !.pc = "listGet", !.queue = <<>>, !.page = @ + 1,
                       !.slept = pageDelay,
                       !.log = Append(@, ListGet(r.page + 1))]

\* fetchStravaActivities after a page's for-loop has advanced: either the
\* next kept record asks for its country, or the page is done (page++,
\* the 200 ms delay, and the next page request)
continuePage(r, queue) ==
    LET rest == skipExcluded(queue)
    IN  IF rest # <<>>
        THEN [r EXCEPT !.pc = "getCountry", !.queue = rest,
                       !.log = Append(@, Geocode(ListTable[Head(rest)].point))]
        ELSE [r EXCEPT !.pc = "listGet", !.queue = <<>>, !.page = @ + 1,
                       !.slept = pageDelay,
                       !.log = Append(@, ListGet(r.page + 1))]

\* activitiesWithAthleteId / the pushed element of newActivitiesToStore
withAthleteId(activity, athlete_id) ==
    spread(activity, "athlete_id", toString(athlete_id))

\* performBackgroundSync: the call of getActivityCount
callCount(r, storedCount) ==
    [r EXCEPT !.pc = "getActivityCount", !.storedCount = storedCount,
              !.log = Append(@, CountQuery)]

\* performBackgroundSync: the call of storeActivities(list) up to its first
\* await, or to its return when there is no batch
callStore(r, list) ==
    LET job == storeActivitiesStart(list)
    IN  IF job.status = "returned"
        THEN callCount([r EXCEPT !.job = job], job.totalStored)
        ELSE [r EXCEPT !.pc = "batchWrite", !.job = job]

\* variant: the full flag is ignored, every run checks for duplicates
afterFetchChecksAll(r) ==
    IF r.activities = <<>>
    THEN callCount(r, 0)
    ELSE [r EXCEPT !.pc = "activityExists", !.i = 1,
                   !.log = Append(@, ExistsGet(r.activities[1].id))]

\* performBackgroundSync after fetchStravaActivities has returned
afterFetch(r) ==
    IF r.full_sync
    THEN callStore(r, [k \in 1..Len(r.activities) |->
                          withAthleteId(r.activities[k], r.athlete_id)])
    ELSE IF r.activities = <<>>
         THEN callCount(r, 0)
         ELSE [r EXCEPT !.pc = "activityExists", !.i = 1,
                        !.log = Append(@, ExistsGet(r.activities[1].id))]

\* variant: the catch block answers the trigger request with an error
syncCaughtResponds(r) ==
    [r EXCEPT !.pc = "failed",
              !.log = @ \o <<Caught("sync"), Respond(500, ErrorBody("Sync failed"))>>]

\* variant: the catch block logs the error and reports the run as completed
syncCaughtCompletes(r) ==
    [r EXCEPT !.pc = "completed", !.log = Append(@, Caught("sync"))]

\* the catch block of performBackgroundSync: the error is logged
syncCaught(r) ==
    [r EXCEPT !.pc = "failed", !.log = Append(@, Caught("sync"))]

\* variant: the handler starts the background task before it acknowledges
startSyncAckLast(r, accessToken, now) ==
    [r EXCEPT !.pc = "listGet", !.accessToken = accessToken, !.page = 1,
              !.log = @ \o <<ListGet(1), Respond(200, syncAck(r.full_sync, now))>>]

\* POST /activities/sync after getValidAccessToken has returned: the
\* acknowledgment, then performBackgroundSync up to its first await
startSync(r, accessToken, now) ==
    [r EXCEPT !.pc = "listGet", !.accessToken = accessToken, !.page = 1,
              !.log = @ \o <<Respond(200, syncAck(r.full_sync, now)), ListGet(1)>>]

\* GET /activities/:id after getValidAccessToken has returned
startDetailFetch(r, accessToken) ==
    [r EXCEPT !.pc = "activityGet", !.accessToken = accessToken,
              !.log = Append(@, ActivityGet(r.id))]

gotToken(r, accessToken, now) ==
    IF r.kind = "sync" THEN startSync(r, accessToken, now)
    ELSE startDetailFetch(r, accessToken)

\* variant: the sync handler answers every caught error alike
handlerCaughtAlike(r, message, httpStatus) ==
    IF r.kind = "sync"
    THEN [r EXCEPT !.pc = "closed", !.error = message,
             !.log = Append(@, Respond(500, ErrorBody("Failed to start sync")))]
    ELSE IF httpStatus = 401
         THEN [r EXCEPT !.pc = "closed", !.error = message,
                  !.log = Append(@, Respond(401, ErrorBody("Strava token expired")))]
         ELSE [r EXCEPT !.pc = "closed", !.error = message,
                  !.log = Append(@, Respond(500, ErrorBody("Failed to fetch activity details")))]

\* the catch blocks of the two handlers, for an error (message: its
\* error.message) thrown before the acknowledgment (sync) or anywhere in
\* the try block (detail)
handlerCaught(r, message, httpStatus) ==
    IF r.kind = "sync"
    THEN IF message = "No authentication data found"
         THEN [r EXCEPT !.pc = "closed", !.error = message,
                  !.log = Append(@, Respond(401, ErrorBody("Authentication expired")))]
         ELSE [r EXCEPT !.pc = "closed", !.error = message,
                  !.log = Append(@, Respond(500, ErrorBody("Failed to start sync")))]
    ELSE IF httpStatus = 401
         THEN [r EXCEPT !.pc = "closed", !.error = message,
                  !.log = Append(@, Respond(401, ErrorBody("Strava token expired")))]
         ELSE [r EXCEPT !.pc = "closed", !.error = message,
                  !.log = Append(@, Respond(500, ErrorBody("Failed to fetch activity details")))]

\* Date.now() / 1000, floored
nowSeconds == clock \div 1000

\* response.data of the refresh request: new tokens, no athlete object
refreshedTokenData ==
    [access_token |-> "tokB", refresh_token |-> "refB",
     expires_at |-> nowSeconds + 21600, athlete_info |-> Null]

\* getValidAccessToken after getAuthToken's dynamodb.send has settled
getValidAccessTokenStep(r, outcome) ==
    LET key == toString(r.athlete_id)
    IN  IF outcome = "error" THEN handlerCaught(r, "store error", 0)
        ELSE IF key \notin DOMAIN auth
             THEN handlerCaught(r, "No authentication data found", 0)
        ELSE IF tokenExpiring(auth[key], nowSeconds)
             THEN [r EXCEPT !.pc = "refreshPost", !.log = Append(@, RefreshPost)]
        ELSE gotToken(r, auth[key].access_token, clock)

\* the detail handler after the upstream activity (identifier id) has arrived
detailChecks(r, id) ==
    LET decision == DetailTable[id].decision
    IN  IF decision = "not_found_or_virtual"
        THEN [r EXCEPT !.pc = "closed",
                 !.log = Append(@, Respond(404, ErrorBody("Activity not found or is virtual")))]
        ELSE IF decision = "insufficient_gps"
        THEN [r EXCEPT !.pc = "closed",
                 !.log = Append(@, Respond(404, ErrorBody("Activity has insufficient GPS data")))]
        ELSE [r EXCEPT !.pc = "getCountry", !.queue = <<id>>,
                 !.log = Append(@, Geocode(DetailTable[id].point))]

\* variant: a stored record of 20 coordinates counts as a hit
storeHitAtLeast20(table, id) ==
    id \in DOMAIN table /\ Len(table[id].coordinates) >= 20

\* the store-hit test of GET /activities/:id
storeHit(table, id) ==
    id \in DOMAIN table /\ Len(table[id].coordinates) > 20

\* variant: a thrown batch failure is taken for a return of the partial count
storeSettledIgnoresThrow(r, job) ==
    IF r.kind = "sync"
    THEN callCount([r EXCEPT !.job = job], job.totalStored)
    ELSE [r EXCEPT !.pc = "closed", !.job = job,
             !.log = @ \o <<Respond(200, r.activities[1])>>]

\* variant: a failed write of the enriched record fails the detail request
storeSettledFailsRequest(r, job) ==
    IF r.kind = "sync"
    THEN IF job.status = "returned"
         THEN callCount([r EXCEPT !.job = job], job.totalStored)
         ELSE syncCaught([r EXCEPT !.job = job])
    ELSE IF job.status = "threw"
         THEN [r EXCEPT !.pc = "closed", !.job = job,
                  !.log = @ \o <<Caught("store"),
                       Respond(500, ErrorBody("Failed to fetch activity details"))>>]
         ELSE [r EXCEPT !.pc = "closed", !.job = job,
                  !.log = @ \o <<Respond(200, r.activities[1])>>]

\* storeActivities has returned to, or thrown into, its caller
storeSettled(r, job) ==
    IF r.kind = "sync"
    THEN IF job.status = "returned"
         THEN callCount([r EXCEPT !.job = job], job.totalStored)
         ELSE syncCaught([r EXCEPT !.job = job])
    ELSE [r EXCEPT !.pc = "closed", !.job = job,
             !.log = @ \o (IF job.status = "threw" THEN <<Caught("store")>> ELSE <<>>)
                       \o <<Respond(200, r.activities[1])>>]

(***************************************************************************)
(* Actions: a request arrives, or an awaited call settles                  *)
(***************************************************************************)

geoVars == <<clock, lastApiCall, caller>>

\* POST /activities/sync up to the await of getValidAccessToken
postSync(p, athlete_id, full_sync) ==
    /\ proc[p].kind = "sync" /\ proc[p].pc = "idle"
    /\ proc' = [proc EXCEPT ![p] =
          IF falsy(athlete_id)
          THEN [@ EXCEPT !.pc = "closed", !.athlete_id = athlete_id,
                         !.full_sync = full_sync,
                         !.log = Append(@, Respond(400, ErrorBody("athlete_id is required")))]
          ELSE [@ EXCEPT !.pc = "getAuthToken", !.athlete_id = athlete_id,
                         !.full_sync = full_sync,
                         !.log = Append(@, AuthGet)]]
    /\ UNCHANGED <<store, auth, listing, geoVars>>

\* GET /activities/:id up to the await of getActivity
getDetail(p, id, athlete_id) ==
    /\ proc[p].kind = "detail" /\ proc[p].pc = "idle"
    /\ proc' = [proc EXCEPT ![p] =
          IF falsy(athlete_id)
          THEN [@ EXCEPT !.pc = "closed", !.athlete_id = athlete_id, !.id = id,
                         !.log = Append(@, Respond(400, ErrorBody("athlete_id is required")))]
          ELSE [@ EXCEPT !.pc = "getActivity", !.athlete_id = athlete_id, !.id = id,
                         !.log = Append(@, StoreGet(id))]]
    /\ UNCHANGED <<store, auth, listing, geoVars>>

\* variant: the stored record is returned to its owning athlete only
getActivityReturnsToOwner(p, outcome) ==
    /\ proc[p].pc = "getActivity"
    /\ proc' = [proc EXCEPT ![p] =
          IF outcome = "error" THEN handlerCaught(@, "store error", 0)
          ELSE IF /\ storeHit(store, proc[p].id)
                  /\ store[proc[p].id].athlete_id = toString(proc[p].athlete_id)
               THEN [@ EXCEPT !.pc = "closed",
                              !.log = Append(@, Respond(200, store[proc[p].id]))]
               ELSE [@ EXCEPT !.pc = "getAuthToken", !.log = Append(@, AuthGet)]]
    /\ UNCHANGED <<store, auth, listing, geoVars>>

\* getActivity settles: store hit, or on to the upstream branch
getActivityReturns(p, outcome) ==
    /\ proc[p].pc = "getActivity"
    /\ proc' = [proc EXCEPT ![p] =
          IF outcome = "error" THEN handlerCaught(@, "store error", 0)
          ELSE IF storeHit(store, @.id)
               THEN [@ EXCEPT !.pc = "closed",
                              !.log = Append(@, Respond(200, store[proc[p].id]))]
               ELSE [@ EXCEPT !.pc = "getAuthToken", !.log = Append(@, AuthGet)]]
    /\ UNCHANGED <<store, auth, listing, geoVars>>

\* getAuthToken settles inside getValidAccessToken
getAuthTokenReturns(p, outcome) ==
    /\ proc[p].pc = "getAuthToken"
    /\ proc' = [proc EXCEPT ![p] = getValidAccessTokenStep(@, outcome)]
    /\ UNCHANGED <<store, auth, listing, geoVars>>

\* refreshAccessToken: the token request settles
refreshPostReturns(p, outcome) ==
    /\ proc[p].pc = "refreshPost"
    /\ proc' = [proc EXCEPT ![p] =
          IF outcome = "ok"
          THEN [@ EXCEPT !.pc = "storeAuthToken", !.tokenData = refreshedTokenData,
                         !.log = Append(@, AuthPut)]
          ELSE handlerCaught(@, "Request failed", IF outcome = "401" THEN 401 ELSE 400)]
    /\ UNCHANGED <<store, auth, listing, geoVars>>

\* refreshAccessToken: storeAuthToken settles
storeAuthTokenReturns(p, outcome) ==
    /\ proc[p].pc = "storeAuthToken"
    /\ IF outcome = "ok"
       THEN LET key == toString(proc[p].athlete_id)
                item == authItem(key, proc[p].tokenData, clock)
            IN  /\ auth' = [k \in DOMAIN auth \cup {key} |->
                               IF k = key THEN item ELSE auth[k]]
                /\ proc' = [proc EXCEPT ![p] = gotToken(@, item.access_token, clock)]
       ELSE /\ auth' = auth
            /\ proc' = [proc EXCEPT ![p] = handlerCaught(@, "store error", 0)]
    /\ UNCHANGED <<store, listing, geoVars>>

\* variant: a failed page request ends pagination like an empty page
listGetReturnsErrorEndsPaging(p, outcome) ==
    /\ proc[p].pc = "listGet"
    /\ LET r == [proc[p] EXCEPT !.slept = 0]
           pageActivities == IF r.page <= Len(listing) THEN listing[r.page] ELSE <<>>
       IN  proc' = [proc EXCEPT ![p] =
              IF outcome = "error" \/ Len(pageActivities) = 0 THEN afterFetch(r)
              ELSE continuePage(r, pageActivities)]
    /\ UNCHANGED <<store, auth, listing, geoVars>>

\* fetchStravaActivities: a page request settles
listGetReturns(p, outcome) ==
    /\ proc[p].pc = "listGet"
    /\ LET r == [proc[p] EXCEPT !.slept = 0]
           pageActivities == IF r.page <= Len(listing) THEN listing[r.page] ELSE <<>>
       IN  proc' = [proc EXCEPT ![p] =
              IF outcome = "error" THEN syncCaught(r)
              ELSE IF Len(pageActivities) = 0 THEN afterFetch(r)
              ELSE continuePage(r, pageActivities)]
    /\ UNCHANGED <<store, auth, listing, geoVars>>

\* getCountryFromCoordinates settles (it never throws)
getCountryReturns(p, country) ==
    /\ proc[p].pc = "getCountry"
    /\ LET r == [proc[p] EXCEPT !.slept = 0]
           id == Head(r.queue)
       IN  /\ country \in CountryResults(r.log[Len(r.log)].point)
           /\ proc' = [proc EXCEPT ![p] =
                IF r.kind = "sync"
                THEN continuePage(
                        [r EXCEPT !.activities = Append(@,
                            [ListTable[id].processed EXCEPT !.country = country])],
                        Tail(r.queue))
                ELSE LET detailed == [DetailTable[id].detailed EXCEPT
                                         !.athlete_id = toString(r.athlete_id),
                                         !.country = country]
                     IN  [r EXCEPT !.pc = "batchWrite", !.queue = <<>>,
                                   !.activities = <<detailed>>,
                                   !.job = storeActivitiesStart(<<detailed>>)]]
    /\ UNCHANGED <<store, auth, listing, geoVars>>

\* variant: an identifier that another run is about to write counts as stored
activityExistsOrPending(activityId, outcome) ==
    /\ outcome = "ok"
    /\ \/ activityId \in DOMAIN store
       \/ \E q \in DOMAIN proc :
             \E k \in 1..Len(proc[q].newActivitiesToStore) :
                 proc[q].newActivitiesToStore[k].id = activityId

\* activityExists: !!result.Item, or false on a store error
activityExists(activityId, outcome) ==
    outcome = "ok" /\ activityId \in DOMAIN store

\* activityExists settles in the duplicate check of performBackgroundSync
activityExistsReturns(p, outcome) ==
    /\ proc[p].pc = "activityExists"
    /\ LET r == [proc[p] EXCEPT !.slept = 0]
           activity == r.activities[r.i]
           exists == activityExists(activity.id, outcome)
           r2 == IF exists
                 THEN [r EXCEPT !.skippedCount = @ + 1]
                 ELSE [r EXCEPT !.newActivitiesToStore =
                                   Append(@, withAthleteId(activity, r.athlete_id))]
       IN  proc' = [proc EXCEPT ![p] =
              IF r.i < Len(r.activities)
              THEN [r2 EXCEPT !.i = @ + 1,
                              !.log = Append(@, ExistsGet(r.activities[r.i + 1].id))]
              ELSE IF Len(r2.newActivitiesToStore) > 0
                   THEN callStore(r2, r2.newActivitiesToStore)
                   ELSE callCount(r2, 0)]
    /\ UNCHANGED <<store, auth, listing, geoVars>>

\* storeActivities: dynamodb.send of the current batch settles, and the
\* setTimeout that follows it (the delay after a success, the backoff
\* before a retry) has been awaited
batchWriteReturns(p, outcome) ==
    /\ proc[p].pc = "batchWrite"
    /\ LET r == proc[p]
           job == r.job
           job2 == IF outcome = "ok" THEN storeActivitiesOnSuccess(job)
                   ELSE storeActivitiesOnError(job, outcome)
           r2 == [r EXCEPT !.job = job2,
                    !.slept = IF outcome = "ok" THEN delayMs(job)
                              ELSE IF job2.status = "threw" THEN 0
                              ELSE backoffDelay(job2.retryCount),
                    !.log = IF outcome = "ok" \/ job2.status = "threw"
                            THEN Append(@, BatchWrite(job.i, outcome)) ELSE @]
       IN  /\ store' = IF outcome = "ok" THEN putAll(store, job.batches[job.i], clock)
                       ELSE store
           /\ proc' = [proc EXCEPT ![p] =
                IF job2.status = "sending" THEN r2 ELSE storeSettled(r2, job2)]
    /\ UNCHANGED <<auth, listing, geoVars>>

\* getActivityCount settles: result.Count || 0, or 0 on a store error
getActivityCountReturns(p, outcome) ==
    /\ proc[p].pc = "getActivityCount"
    /\ proc' = [proc EXCEPT ![p] =
          [@ EXCEPT !.pc = "completed", !.slept = 0,
                    !.totalActivities =
                        IF outcome = "ok"
                        THEN countByOwner(store, toString(proc[p].athlete_id))
                        ELSE 0]]
    /\ UNCHANGED <<store, auth, listing, geoVars>>

\* GET /activities/:id: the upstream request for the activity settles
activityGetReturns(p, outcome) ==
    /\ proc[p].pc = "activityGet"
    /\ outcome = "ok" => proc[p].id \in UpstreamIds
    /\ proc' = [proc EXCEPT ![p] =
          IF outcome = "ok" THEN detailChecks(@, proc[p].id)
          ELSE handlerCaught(@, "Request failed", IF outcome = "401" THEN 401 ELSE 404)]
    /\ UNCHANGED <<store, auth, listing, geoVars>>

\* A request that has ended leaves the model: its slot takes the next one
finished(p) ==
    /\ proc[p].pc \in {"closed", "completed", "failed"}
    /\ proc' = [proc EXCEPT ![p] = IdleProc(proc[p].kind)]
    /\ UNCHANGED <<store, auth, listing, geoVars>>

(***************************************************************************)
(* The service: concurrent sync triggers and detail requests               *)
(***************************************************************************)

SyncAthletes == {Undefined, JsNum("7"), JsNum("8")}
DetailAthletes == {Undefined, JsStr("7"), JsStr("8")}
DetailIds == {2, 3, 4, 5, 6}
GetOutcomes == {"ok", "error"}
RefreshOutcomes == {"ok", "401", "500"}
UpstreamOutcomes == {"ok", "401", "404"}
WriteOutcomes == {"ok", "ProvisionedThroughputExceededException", "ValidationException"}

\* pages of activity identifiers
ListingA == << <<5, 1, 6, 3>>, <<8, 2, 9>> >>
ListingB == << <<4, 7>>, <<1>> >>
Listings == {ListingA, ListingB, <<>>}

StartClock == 1000000
TokenExpiries == {1300}

InitialAuth(expires_at) ==
    [k \in {"7"} |->
        [athlete_id |-> "7", access_token |-> "tokA", refresh_token |-> "refA",
         expires_at |-> expires_at, athlete_info |-> "athlete 7",
         created_at |-> 0, updated_at |-> 0]]

InitGeoIdle ==
    /\ clock = StartClock
    /\ lastApiCall = [google |-> 0, nominatim |-> 0]
    /\ caller = <<>>

Init ==
    /\ store = EmptyTable
    /\ \E e \in TokenExpiries : auth = InitialAuth(e)
    /\ listing \in Listings
    /\ proc = [p \in Procs |-> IdleProc(IF p \in SyncProcs THEN "sync" ELSE "detail")]
    /\ InitGeoIdle

Next ==
    \/ \E p \in SyncProcs, a \in SyncAthletes, f \in BOOLEAN : postSync(p, a, f)
    \/ \E p \in DetailProcs, id \in DetailIds, a \in DetailAthletes : getDetail(p, id, a)
    \/ \E p \in DetailProcs, o \in GetOutcomes : getActivityReturns(p, o)
    \/ \E p \in Procs, o \in GetOutcomes : getAuthTokenReturns(p, o)
    \/ \E p \in Procs, o \in RefreshOutcomes : refreshPostReturns(p, o)
    \/ \E p \in Procs, o \in GetOutcomes : storeAuthTokenReturns(p, o)
    \/ \E p \in SyncProcs, o \in GetOutcomes : listGetReturns(p, o)
    \/ \E p \in Procs, c \in {"Sweden", "Europe", "Bahrain"} : getCountryReturns(p, c)
    \/ \E p \in SyncProcs, o \in GetOutcomes : activityExistsReturns(p, o)
    \/ \E p \in Procs, o \in WriteOutcomes : batchWriteReturns(p, o)
    \/ \E p \in SyncProcs, o \in GetOutcomes : getActivityCountReturns(p, o)
    \/ \E p \in DetailProcs, o \in UpstreamOutcomes : activityGetReturns(p, o)
    \/ \E p \in Procs : finished(p)

Spec == Init /\ [][Next]_vars


(***************************************************************************)
(* One full sync of a long listing: the batches of storeActivities         *)
(***************************************************************************)

\* a token that needs no refresh during the run
FreshExpiry == (StartClock \div 1000) + 21600

\* the upstream listing of the first n plain activities, in pages of perPage
BulkIds(n) == [k \in 1..n |-> Len(Catalogue) + k]
RECURSIVE Pages(_)
Pages(ids) ==
    IF ids = <<>> THEN <<>>
    ELSE <<SubSeq(ids, 1, Min(perPage, Len(ids)))>>
            \o Pages(SubSeq(ids, Min(perPage, Len(ids)) + 1, Len(ids)))

\* what earlier requests of athlete 7 may have left in the store: the
\* sync record of activity 2 and the enriched record of the first plain
\* activity
BulkPrior ==
    putAll(EmptyTable,
           <<withAthleteId([ListTable[2].processed EXCEPT !.country = "Bahrain"],
                           JsNum("7")),
             [DetailTable[Len(Catalogue) + 1].detailed EXCEPT
                 !.athlete_id = "7", !.country = "Bahrain"]>>,
           StartClock)
PriorStores == {EmptyTable, BulkPrior}

\* the request slot of the run
BulkProc == CHOOSE p \in SyncProcs : \A q \in SyncProcs : p <= q

\* the expiry of the stored token: none, in the past, exactly and just
\* past the 300 s margin, and far ahead
BulkExpiries == {0, 900, (StartClock \div 1000) + 300, (StartClock \div 1000) + 301,
                 FreshExpiry}

InitBulk ==
    /\ store \in PriorStores
    /\ \E e \in BulkExpiries : auth = InitialAuth(e)
    /\ \/ \E n \in 0..MaxBulk : listing = Pages(BulkIds(n))
       \/ listing \in {ListingA, ListingB}
    /\ proc = [p \in Procs |-> IdleProc(IF p \in SyncProcs THEN "sync" ELSE "detail")]
    /\ InitGeoIdle

NextBulk ==
    \/ postSync(BulkProc, JsNum("7"), TRUE)
    \/ getAuthTokenReturns(BulkProc, "ok")
    \/ \E o \in RefreshOutcomes : refreshPostReturns(BulkProc, o)
    \/ \E o \in GetOutcomes : storeAuthTokenReturns(BulkProc, o)
    \/ listGetReturns(BulkProc, "ok")
    \/ \E c \in {"Bahrain"} : getCountryReturns(BulkProc, c)
    \/ \E o \in WriteOutcomes : batchWriteReturns(BulkProc, o)
    \/ \E o \in GetOutcomes : getActivityCountReturns(BulkProc, o)

SpecBulk == InitBulk /\ [][NextBulk]_vars

(***************************************************************************)
(* Incremental syncs of one owner, side by side                            *)
(***************************************************************************)

\* bound: how many sync runs of the owner are in flight at a time
MaxRacers == 2
Racers == 1..MaxRacers

RaceListings == {<< <<1>> >>, << <<1, 2>> >>, << <<1>>, <<2>> >>}

InitRace ==
    /\ store = EmptyTable
    /\ auth = InitialAuth(FreshExpiry)
    /\ listing \in RaceListings
    /\ proc = [p \in Racers |-> IdleProc("sync")]
    /\ InitGeoIdle

NextRace ==
    \/ \E p \in Racers : postSync(p, JsNum("7"), FALSE)
    \/ \E p \in Racers : getAuthTokenReturns(p, "ok")
    \/ \E p \in Racers : listGetReturns(p, "ok")
    \/ \E p \in Racers : getCountryReturns(p, "Bahrain")
    \/ \E p \in Racers : activityExistsReturns(p, "ok")
    \/ \E p \in Racers : batchWriteReturns(p, "ok")
    \/ \E p \in Racers : getActivityCountReturns(p, "ok")

SpecRace == InitRace /\ [][NextRace]_vars

(***************************************************************************)
(* The country resolver and its rate limiter, under concurrent callers     *)
(***************************************************************************)

\* bounds: resolutions in flight at a time, the time the clock runs for
\* (ms), and the step of the clock (ms)
MaxCallers == 2
MaxElapsed == 1300
TickMs == 100

Callers == 1..MaxCallers

\* the minimum intervals handed to rateLimitedCall
googleInterval == 100
nominatimInterval == 1100
minIntervalMs(apiName) ==
    IF apiName = "google" THEN googleInterval ELSE nominatimInterval

\* a resolution that has not started; key: GOOGLE_GEOCODING_API_KEY or
\* GOOGLE_MAPS_API_KEY is set in the process environment.  point is the
\* coordinate pair it is called with, trail the tiers it has tried so far
\* with what each gave, result what it returns.
NewCaller(key) ==
    [pc |-> "idle", key |-> key, apiName |-> Null, wake |-> 0,
     point |-> <<>>, trail |-> <<>>, result |-> Null]

\* what a tier function gives its caller: a returned value or a throw
Returned(value) == [threw |-> FALSE, value |-> value]
Threw == [threw |-> TRUE, value |-> Null]

\* one entry of a trail; requested: the tier's HTTP request was issued
Attempt(tier, requested, res) ==
    [tier |-> tier, requested |-> requested, threw |-> res.threw, value |-> res.value]

\* getCountryFromGoogle once its request has settled.  outcome: the country
\* component's long_name is a country name, the empty string or "Unknown";
\* the response status is OVER_QUERY_LIMIT or ZERO_RESULTS; the request
\* fails (network error) or runs into the 10 s timeout
googleResult(outcome, lat, lng) ==
    CASE outcome = "country" -> Returned(GeocoderAnswer(lat, lng))
      [] outcome = "empty" -> Returned("")
      [] outcome = "unknown" -> Returned("Unknown")
      [] OTHER -> Threw

\* getCountryFromNominatim once its request has settled: address.country
\* when it is truthy, else a throw (as for a failed request)
nominatimResult(outcome, lat, lng) ==
    CASE outcome = "country" -> Returned(GeocoderAnswer(lat, lng))
      [] outcome = "unknown" -> Returned("Unknown")
      [] OTHER -> Threw

\* variant: whatever a tier returns ends the resolution
usableAnyValue(res) == ~res.threw

\* country && country !== "Unknown", for a tier that did not throw
usable(res) == ~res.threw /\ res.value # "" /\ res.value # "Unknown"

\* variant: a call that has to wait waits the whole interval
rateLimitedCallFullWait(c, r, apiName, now) ==
    LET timeSinceLastCall == now - lastApiCall[apiName]
    IN  IF timeSinceLastCall < minIntervalMs(apiName)
        THEN /\ caller' = [caller EXCEPT ![c] =
                    [r EXCEPT !.pc = "waiting", !.apiName = apiName,
                              !.wake = now + minIntervalMs(apiName)]]
             /\ lastApiCall' = lastApiCall
        ELSE /\ caller' = [caller EXCEPT ![c] =
                    [r EXCEPT !.pc = "calling", !.apiName = apiName]]
             /\ lastApiCall' = [lastApiCall EXCEPT ![apiName] = now]

\* rateLimitedCall(apiName, minIntervalMs) from its entry to its await (the
\* caller, in state r, goes to sleep until wake) or, when no wait is due, to
\* its end (the stamp is taken and the caller goes on to its request)
rateLimitedCall(c, r, apiName, now) ==
    LET timeSinceLastCall == now - lastApiCall[apiName]
    IN  IF timeSinceLastCall < minIntervalMs(apiName)
        THEN /\ caller' = [caller EXCEPT ![c] =
                    [r EXCEPT !.pc = "waiting", !.apiName = apiName,
                              !.wake = now + (minIntervalMs(apiName) - timeSinceLastCall)]]
             /\ lastApiCall' = lastApiCall
        ELSE /\ caller' = [caller EXCEPT ![c] =
                    [r EXCEPT !.pc = "calling", !.apiName = apiName]]
             /\ lastApiCall' = [lastApiCall EXCEPT ![apiName] = now]

\* variant: the precise tier enters its limiter before it looks for the key
resolveStartLimiterFirst(c, point) ==
    /\ caller[c].pc = "idle"
    /\ rateLimitedCall(c, [caller[c] EXCEPT !.point = point], "google", clock)
    /\ UNCHANGED <<store, auth, listing, proc, clock>>

\* getCountryFromCoordinates is called with a coordinate pair: the precise
\* tier when a key is configured; without one getCountryFromGoogle throws
\* before its limiter and the catch block goes on to the free tier
resolveStart(c, point) ==
    /\ caller[c].pc = "idle"
    /\ LET r == [caller[c] EXCEPT !.point = point]
       IN  IF r.key
           THEN rateLimitedCall(c, r, "google", clock)
           ELSE rateLimitedCall(c,
                    [r EXCEPT !.trail = <<Attempt("google", FALSE, Threw)>>],
                    "nominatim", clock)
    /\ UNCHANGED <<store, auth, listing, proc, clock>>

\* the setTimeout of rateLimitedCall fires (never early): the stamp is taken
timerFires(c) ==
    /\ caller[c].pc = "waiting"
    /\ clock >= caller[c].wake
    /\ lastApiCall' = [lastApiCall EXCEPT ![caller[c].apiName] = clock]
    /\ caller' = [caller EXCEPT ![c] = [@ EXCEPT !.pc = "calling", !.wake = 0]]
    /\ UNCHANGED <<store, auth, listing, proc, clock>>

\* the tier's request settles: a usable country ends the resolution; else
\* the precise tier falls to the free tier, and the free tier to the
\* coordinate ranges
geocodeReturns(c, outcome) ==
    /\ caller[c].pc = "calling"
    /\ LET r == caller[c]
           lat == r.point[1]
           lng == r.point[2]
           res == IF r.apiName = "google" THEN googleResult(outcome, lat, lng)
                  ELSE nominatimResult(outcome, lat, lng)
           r2 == [r EXCEPT !.trail = Append(@, Attempt(r.apiName, TRUE, res))]
       IN  IF usable(res)
           THEN /\ caller' = [caller EXCEPT ![c] =
                       [r2 EXCEPT !.pc = "resolved", !.result = res.value]]
                /\ lastApiCall' = lastApiCall
           ELSE IF r.apiName = "google"
                THEN rateLimitedCall(c, r2, "nominatim", clock)
                ELSE /\ caller' = [caller EXCEPT ![c] =
                            [r2 EXCEPT !.pc = "resolved",
                                       !.result = getCountryFromCoordinateRanges(lat, lng)]]
                     /\ lastApiCall' = lastApiCall
    /\ UNCHANGED <<store, auth, listing, proc, clock>>

\* the resolution has returned to its caller, which may start the next one
resolveEnd(c) ==
    /\ caller[c].pc = "resolved"
    /\ caller' = [caller EXCEPT ![c] = NewCaller(caller[c].key)]
    /\ UNCHANGED <<store, auth, listing, proc, clock, lastApiCall>>

\* time passes, as long as no timer is due
Tick ==
    /\ clock + TickMs <= StartClock + MaxElapsed
    /\ \A c \in Callers : caller[c].pc = "waiting" => clock < caller[c].wake
    /\ clock' = clock + TickMs
    /\ UNCHANGED <<store, auth, listing, proc, lastApiCall, caller>>

InitLimiter ==
    /\ store = EmptyTable
    /\ auth = InitialAuth(FreshExpiry)
    /\ listing = <<>>
    /\ proc = [p \in Procs |-> IdleProc(IF p \in SyncProcs THEN "sync" ELSE "detail")]
    /\ clock = StartClock
    /\ lastApiCall = [google |-> 0, nominatim |-> 0]
    /\ \E key \in BOOLEAN : caller = [c \in Callers |-> NewCaller(key)]

NextLimiter ==
    \/ \E c \in Callers : resolveStart(c, StartBahrain)
    \/ \E c \in Callers : timerFires(c)
    \/ \E c \in Callers, o \in {"country", "network_error"} : geocodeReturns(c, o)
    \/ \E c \in Callers : resolveEnd(c)
    \/ Tick

SpecLimiter == InitLimiter /\ [][NextLimiter]_vars

(***************************************************************************)
(* One country resolution after another, over every outcome of the tiers   *)
(***************************************************************************)

\* a coordinate no range of the table contains
StartNairobi == <<-129000, 3682000>>
ResolverPoints == {StartBahrain, StartStockholm, StartNairobi}

\* what the request of a tier can come to
TierOutcomes == {"country", "empty", "unknown", "OVER_QUERY_LIMIT", "ZERO_RESULTS",
                 "network_error", "timeout"}

\* the resolution in flight
Resolver == CHOOSE c \in Callers : \A d \in Callers : c <= d

NextResolver ==
    \/ \E point \in ResolverPoints : resolveStart(Resolver, point)
    \/ timerFires(Resolver)
    \/ \E o \in TierOutcomes : geocodeReturns(Resolver, o)
    \/ resolveEnd(Resolver)
    \/ Tick

SpecResolver == InitLimiter /\ [][NextResolver]_vars

(***************************************************************************)
(* One sync run whose calls all return                                     *)
(***************************************************************************)

LiveRun == "run"

\* some call the run is waiting for returns, with a result or an error
Settle(p) ==
    \/ \E o \in GetOutcomes : getAuthTokenReturns(p, o)
    \/ \E o \in RefreshOutcomes : refreshPostReturns(p, o)
    \/ \E o \in GetOutcomes : storeAuthTokenReturns(p, o)
    \/ \E o \in GetOutcomes : listGetReturns(p, o)
    \/ getCountryReturns(p, "Bahrain")
    \/ \E o \in GetOutcomes : activityExistsReturns(p, o)
    \/ \E o \in WriteOutcomes : batchWriteReturns(p, o)
    \/ \E o \in GetOutcomes : getActivityCountReturns(p, o)

\* the listings of the runs: none, one page, two pages, and two batches
LiveListings == {<<>>, << <<1>> >>, ListingB, Pages(BulkIds(batchSize + 1))}

\* what an earlier detail request of athlete 7 may have left in the store:
\* the enriched record of activity 1, with 22 coordinates
LivePrior ==
    putAll(EmptyTable,
           <<[DetailTable[1].detailed EXCEPT !.athlete_id = "7", !.country = "Bahrain"]>>,
           StartClock)

InitLive ==
    /\ store \in {EmptyTable, LivePrior}
    /\ \E e \in {900, FreshExpiry} : auth = InitialAuth(e)
    /\ listing \in LiveListings
    /\ proc = [p \in {LiveRun} |-> IdleProc("sync")]
    /\ InitGeoIdle

\* the two-batch listing is synced in full only: an incremental run over it
\* would branch on the outcome of each of its existence checks
LiveModes == IF Len(listing) > 0 /\ Len(listing[1]) > batchSize THEN {TRUE} ELSE BOOLEAN

NextLive ==
    \/ \E f \in LiveModes : postSync(LiveRun, JsNum("7"), f)
    \/ Settle(LiveRun)
    \/ finished(LiveRun)

\* every call that is awaited returns
SpecLive == InitLive /\ [][NextLive]_vars /\ WF_vars(Settle(LiveRun))

(***************************************************************************)
(* Writers of two owners on the same identifiers                           *)
(***************************************************************************)

WriterSyncs == {"syncA", "syncB"}
WriterDetail == "detail"
Writers == WriterSyncs \cup {WriterDetail}

\* both athletes have authenticated
WritersAuth ==
    [k \in {"7", "8"} |->
        [athlete_id |-> k, access_token |-> "tokA", refresh_token |-> "refA",
         expires_at |-> FreshExpiry, athlete_info |-> "athlete",
         created_at |-> 0, updated_at |-> 0]]

WriterListings == {<< <<2>> >>, << <<2, 4>> >>}

InitWriters ==
    /\ store = EmptyTable
    /\ auth = WritersAuth
    /\ listing \in WriterListings
    /\ proc = [p \in Writers |-> IdleProc(IF p \in WriterSyncs THEN "sync" ELSE "detail")]
    /\ InitGeoIdle

NextWriters ==
    \/ \E p \in WriterSyncs, f \in BOOLEAN : postSync(p, JsNum(IF p = "syncA" THEN "7" ELSE "8"), f)
    \/ \E a \in {JsStr("7"), JsStr("8")} : getDetail(WriterDetail, 2, a)
    \/ getActivityReturns(WriterDetail, "ok")
    \/ \E p \in Writers : getAuthTokenReturns(p, "ok")
    \/ \E p \in WriterSyncs : listGetReturns(p, "ok")
    \/ \E p \in Writers : getCountryReturns(p, "Bahrain")
    \/ \E p \in WriterSyncs : activityExistsReturns(p, "ok")
    \/ \E p \in Writers, o \in {"ok", "ValidationException"} : batchWriteReturns(p, o)
    \/ \E p \in WriterSyncs : getActivityCountReturns(p, "ok")
    \/ activityGetReturns(WriterDetail, "ok")
    \/ \E p \in Writers : finished(p)

SpecWriters == InitWriters /\ [][NextWriters]_vars

(***************************************************************************)
(* The read endpoints, next to a full sync of the owner                    *)
(***************************************************************************)

\* the request slots: one sync run and one read request at a time
QuerySync == "sync"
QueryReader == "reader"

\* res.json of GET /activities
activitiesBody(activities, activityCount) ==
    [activities |-> activities, cached |-> TRUE, total |-> activityCount,
     returned |-> Cardinality(activities)]

\* variant: the status follows the sync runs in flight
syncStatusTracksRuns(totalActivities, now) ==
    [status |-> IF proc[QuerySync].pc \in {"listGet", "getCountry", "batchWrite"}
                THEN "in_progress" ELSE "completed",
     total_activities |-> totalActivities, last_checked |-> now]

\* res.json of GET /activities/sync/status/:athlete_id
syncStatus(totalActivities, now) ==
    [status |-> "completed", total_activities |-> totalActivities,
     last_checked |-> now]

\* GET /activities up to the await of getAuthToken
getActivitiesRequest(p, athlete_id, activity_type, race_filter) ==
    /\ proc[p].kind = "reader" /\ proc[p].pc = "idle"
    /\ proc' = [proc EXCEPT ![p] =
          IF falsy(athlete_id)
          THEN [@ EXCEPT !.pc = "closed", !.athlete_id = athlete_id,
                         !.log = Append(@, Respond(400, ErrorBody("athlete_id is required")))]
          ELSE [@ EXCEPT !.pc = "queryAuth", !.athlete_id = athlete_id,
                         !.filters = [activity_type |-> activity_type,
                                      race_filter |-> race_filter],
                         !.log = Append(@, AuthGet)]]
    /\ UNCHANGED <<store, auth, listing, geoVars>>

\* GET /activities: getAuthToken settles
queryAuthReturns(p, outcome) ==
    /\ proc[p].pc = "queryAuth"
    /\ proc' = [proc EXCEPT ![p] =
          IF outcome = "error"
          THEN [@ EXCEPT !.pc = "closed", !.error = "store error",
                   !.log = Append(@, Respond(500, ErrorBody("Failed to fetch activities")))]
          ELSE IF toString(@.athlete_id) \notin DOMAIN auth
          THEN [@ EXCEPT !.pc = "closed",
                   !.log = Append(@, Respond(401, ErrorBody("User not authenticated")))]
          ELSE [@ EXCEPT !.pc = "getActivities"]]
    /\ UNCHANGED <<store, auth, listing, geoVars>>

\* GET /activities: getActivities settles
getActivitiesReturns(p, outcome) ==
    /\ proc[p].pc = "getActivities"
    /\ proc' = [proc EXCEPT ![p] =
          IF outcome = "error"
          THEN [@ EXCEPT !.pc = "closed", !.error = "store error",
                   !.log = Append(@, Respond(500, ErrorBody("Failed to fetch activities")))]
          ELSE [@ EXCEPT !.pc = "queryCount",
                   !.items = getActivities(store, toString(proc[p].athlete_id),
                                           proc[p].filters),
                   !.log = Append(@, CountQuery)]]
    /\ UNCHANGED <<store, auth, listing, geoVars>>

\* GET /activities: getActivityCount settles (0 on a store error, which
\* getActivityCount logs), and the response
queryCountReturns(p, outcome) ==
    /\ proc[p].pc = "queryCount"
    /\ LET r == proc[p]
           activityCount == IF outcome = "ok"
                            THEN countByOwner(store, toString(r.athlete_id)) ELSE 0
       IN  proc' = [proc EXCEPT ![p] =
              [r EXCEPT !.pc = "closed", !.totalActivities = activityCount,
                  !.log = @ \o (IF outcome = "ok" THEN <<>> ELSE <<Caught("count")>>)
                            \o <<Respond(200, activitiesBody(r.items, activityCount))>>]]
    /\ UNCHANGED <<store, auth, listing, geoVars>>

\* GET /activities/sync/status/:athlete_id up to the await of getActivityCount
statusRequest(p, athlete_id) ==
    /\ proc[p].kind = "reader" /\ proc[p].pc = "idle"
    /\ proc' = [proc EXCEPT ![p] =
          [@ EXCEPT !.pc = "statusCount", !.athlete_id = athlete_id,
                    !.log = Append(@, CountQuery)]]
    /\ UNCHANGED <<store, auth, listing, geoVars>>

\* GET /activities/sync/status/:athlete_id: getActivityCount settles, and
\* the response
statusCountReturns(p, outcome) ==
    /\ proc[p].pc = "statusCount"
    /\ LET r == proc[p]
           totalActivities == IF outcome = "ok"
                              THEN countByOwner(store, toString(r.athlete_id)) ELSE 0
       IN  proc' = [proc EXCEPT ![p] =
              [r EXCEPT !.pc = "closed", !.totalActivities = totalActivities,
                  !.log = @ \o (IF outcome = "ok" THEN <<>> ELSE <<Caught("count")>>)
                            \o <<Respond(200, syncStatus(totalActivities, clock))>>]]
    /\ UNCHANGED <<store, auth, listing, geoVars>>

\* what earlier requests may have left in the store: two synced records of
\* athlete 7 (a run, and a ride that is a race), the enriched record of the
\* Yoga activity, and a record of athlete 8
QueryPrior ==
    putAll(EmptyTable,
           <<withAthleteId([ListTable[1].processed EXCEPT !.country = "Bahrain"],
                           JsNum("7")),
             withAthleteId([ListTable[2].processed EXCEPT !.country = "Bahrain"],
                           JsNum("7")),
             [DetailTable[5].detailed EXCEPT !.athlete_id = "7", !.country = "Bahrain"],
             withAthleteId([ListTable[Len(Catalogue) + 1].processed EXCEPT
                               !.country = "Bahrain"], JsNum("8"))>>,
           StartClock)

ReaderAthletes == {Undefined, JsStr("7"), JsStr("8")}
TypeFilters == {Undefined, JsStr(""), JsStr("all"), JsStr("run"), JsStr("ride")}
RaceFilters == {Undefined, JsStr("all"), JsStr("race"), JsStr("non-race")}
QueryListings == {<< <<1, 8>> >>, << <<Len(Catalogue) + 1>> >>}

InitQuery ==
    /\ store \in {EmptyTable, QueryPrior}
    /\ auth = InitialAuth(FreshExpiry)
    /\ listing \in QueryListings
    /\ proc = [p \in {QuerySync, QueryReader} |->
                  IdleProc(IF p = QuerySync THEN "sync" ELSE "reader")]
    /\ InitGeoIdle

NextQuery ==
    \/ \E f \in BOOLEAN : postSync(QuerySync, JsNum("7"), f)
    \/ getAuthTokenReturns(QuerySync, "ok")
    \/ \E o \in GetOutcomes : listGetReturns(QuerySync, o)
    \/ getCountryReturns(QuerySync, "Bahrain")
    \/ activityExistsReturns(QuerySync, "ok")
    \/ \E o \in {"ok", "ValidationException"} : batchWriteReturns(QuerySync, o)
    \/ getActivityCountReturns(QuerySync, "ok")
    \/ \E a \in ReaderAthletes, t \in TypeFilters, f \in RaceFilters :
          getActivitiesRequest(QueryReader, a, t, f)
    \/ \E o \in GetOutcomes : queryAuthReturns(QueryReader, o)
    \/ \E o \in GetOutcomes : getActivitiesReturns(QueryReader, o)
    \/ \E o \in GetOutcomes : queryCountReturns(QueryReader, o)
    \/ \E a \in {JsStr("7"), JsStr("8")} : statusRequest(QueryReader, a)
    \/ \E o \in GetOutcomes : statusCountReturns(QueryReader, o)
    \/ \E p \in {QuerySync, QueryReader} : finished(p)

SpecQuery == InitQuery /\ [][NextQuery]_vars

(***************************************************************************)
(* The normaliser on one upstream activity: list path and detail path      *)
(***************************************************************************)

\* names with each of the other keywords, in mixed case
NamePeloton == <<"P","e","l","o","t","o","n"," ","h","o","u","r">>
NameVirtual == <<"m","y"," ","V","I","R","T","U","A","L"," ","l","o","o","p">>
NameIndoor == <<"I","n","d","o","o","r"," ","c","y","c","l","i","n","g">>
NameTrainer == <<"o","n"," ","t","h","e"," ","t","r","a","i","n","e","r">>
NameTreadmill == <<"T","r","e","a","d","M","i","l","l"," ","5","k">>
InputNames == {NameLunch, NameCityRace, NameZwift, NamePeloton, NameVirtual,
               NameIndoor, NameTrainer, NameTreadmill}
InputTypes == {"Run", "Walk", "Hike", "TrailRun", "Ride", "Swim",
               "VirtualRide", "VirtualRun", "Yoga"}
\* start_latlng: null, [] or a coordinate pair
InputStarts == {[present |-> FALSE, value |-> <<>>],
                [present |-> TRUE, value |-> <<>>],
                [present |-> TRUE, value |-> StartBahrain]}
\* how many points map.summary_polyline and map.polyline encode (0: the
\* field is missing)
InputPoints == {<<0, 0>>, <<2, 2>>, <<3, 3>>, <<3, 0>>, <<0, 3>>, <<2, 3>>, <<3, 2>>}

RawInputs ==
    {Raw(1, name, type, trainer, manual, start.present, start.value,
         Poly(HeadBahrain, points[1]), Poly(HeadBahrain, points[2]), 0) :
        name \in InputNames, type \in InputTypes, trainer \in BOOLEAN,
        manual \in BOOLEAN, start \in InputStarts, points \in InputPoints}

\* a path that has not looked at the activity yet
NotNormalised == [pc |-> "idle", decision |-> Null, point |-> <<>>, output |-> <<>>]

\* the activity the upstream returns
Input == listing[1][1]

\* the body of the for-loop of fetchStravaActivities on the activity
fetchOne ==
    /\ proc["list"].pc = "idle"
    /\ LET view == listView(Input)
       IN  proc' = [proc EXCEPT !["list"] =
               [pc |-> "done", decision |-> view.decision, point |-> view.point,
                output |-> view.processed]]
    /\ UNCHANGED <<store, auth, listing, geoVars>>

\* the checks of GET /activities/:id on the activity, and detailedActivity
detailOne ==
    /\ proc["detail"].pc = "idle"
    /\ LET view == detailView(Input)
       IN  proc' = [proc EXCEPT !["detail"] =
               [pc |-> "done", decision |-> view.decision, point |-> view.point,
                output |-> view.detailed]]
    /\ UNCHANGED <<store, auth, listing, geoVars>>

InitNormalise ==
    /\ store = EmptyTable
    /\ auth = InitialAuth(FreshExpiry)
    /\ \E activity \in RawInputs : listing = << <<activity>> >>
    /\ proc = [path \in {"list", "detail"} |-> NotNormalised]
    /\ InitGeoIdle

NextNormalise == fetchOne \/ detailOne

SpecNormalise == InitNormalise /\ [][NextNormalise]_vars

(***************************************************************************)
(* decodePolyline on well-formed encodings                                 *)
(***************************************************************************)

\* bound: the number of coordinate pairs of an encoded polyline
MaxPairs == 2

\* deltas of latitude and longitude, in units of 1e-5 degrees: zero, the
\* ends of the one-group range (-16..15), the first two-group values, and
\* values of five and six groups
LatDeltas == {0, -1, 15, 16, 2600000, -9000000}
LngDeltas == {0, 1, -16, -17, 5060000, -36000000}
DeltaPairs == {<<dlat, dlng>> : dlat \in LatDeltas, dlng \in LngDeltas}

RECURSIVE DeltaSeqs(_)
DeltaSeqs(n) ==
    IF n = 0 THEN {<<>>}
    ELSE DeltaSeqs(n - 1)
            \cup {Append(ds, d) : ds \in {x \in DeltaSeqs(n - 1) : Len(x) = n - 1},
                                  d \in DeltaPairs}

\* the encoding the upstream produces: a value is zig-zag coded (2v, or
\* -2v - 1 when negative) and written low group first, 5 bits a character,
\* 0x20 set on every group but the last, 63 added to each
RECURSIVE encodeGroups(_)
encodeGroups(u) ==
    IF u >= 32 THEN <<(32 + (u % 32)) + 63>> \o encodeGroups(u \div 32)
    ELSE <<u + 63>>
encodeValue(v) == encodeGroups(IF v >= 0 THEN 2 * v ELSE (-2 * v) - 1)
RECURSIVE encodePolyline(_)
encodePolyline(deltas) ==
    IF deltas = <<>> THEN <<>>
    ELSE encodeValue(Head(deltas)[1]) \o encodeValue(Head(deltas)[2])
            \o encodePolyline(Tail(deltas))

\* decodePolyline(encoded) is called
decodeCalled(deltas) ==
    [pc |-> "called", deltas |-> deltas, encoded |-> encodePolyline(deltas),
     points |-> <<>>]

\* decodePolyline returns its points
decodeReturns ==
    /\ proc.pc = "called"
    /\ proc' = [proc EXCEPT !.pc = "returned", !.points = decodePolyline(proc.encoded)]
    /\ UNCHANGED <<store, auth, listing, geoVars>>

InitDecode ==
    /\ store = EmptyTable
    /\ auth = InitialAuth(FreshExpiry)
    /\ listing = <<>>
    /\ \E deltas \in DeltaSeqs(MaxPairs) : proc = decodeCalled(deltas)
    /\ InitGeoIdle

NextDecode == decodeReturns

SpecDecode == InitDecode /\ [][NextDecode]_vars

(***************************************************************************)
(* decodePolyline step by step, on arbitrary strings                       *)
(***************************************************************************)

\* bound: the length of the input string
MaxChars == 4

\* character codes: below 63 (a negative byte), a closing group of value 0
\* and of value 1, and continuation groups of value 0 and of value 31
CharCodes == {32, 63, 64, 95, 126}

RECURSIVE Strings(_)
Strings(n) ==
    IF n = 0 THEN {<<>>}
    ELSE Strings(n - 1) \cup
         {Append(s, c) : s \in {t \in Strings(n - 1) : Len(t) = n - 1}, c \in CharCodes}

\* variant: a read past the end of the string goes on with the group
groupContinuesPastEnd(isNaN, byte) == isNaN \/ byte >= 32

\* the test of the do/while: byte >= 0x20, false for NaN
groupContinues(isNaN, byte) == ~isNaN /\ byte >= 32

\* the call frame: index is the 0-based read position, start the position
\* at which the current pass of the outer loop began
NotCalled ==
    [pc |-> "idle", encoded |-> <<>>, index |-> 0, start |-> 0,
     shift |-> 0, result |-> {}, lat |-> 0, lng |-> 0, coordinates |-> <<>>]

\* decodePolyline(encoded) is entered
decodeEntered(encoded) ==
    /\ proc.pc = "idle"
    /\ proc' = [NotCalled EXCEPT !.pc = "while", !.encoded = encoded]
    /\ UNCHANGED <<store, auth, listing, geoVars>>

\* while (index < encoded.length)
loopTest ==
    /\ proc.pc = "while"
    /\ proc' = IF proc.index < Len(proc.encoded)
               THEN [proc EXCEPT !.pc = "latGroup", !.start = proc.index,
                                 !.shift = 0, !.result = {}]
               ELSE [proc EXCEPT !.pc = "returned"]
    /\ UNCHANGED <<store, auth, listing, geoVars>>

\* one pass of a do/while: a character is read, and when the group closes
\* the delta is added (and, after the second group, the point is pushed)
readChar ==
    /\ proc.pc \in {"latGroup", "lngGroup"}
    /\ LET isNaN == proc.index >= Len(proc.encoded)
           byte == IF isNaN THEN 0 ELSE proc.encoded[proc.index + 1] - 63
           chunk == IF isNaN THEN {} ELSE Bits5(byte % 32)
           result == proc.result \cup Shl32(chunk, proc.shift)
           read == [proc EXCEPT !.index = @ + 1, !.shift = @ + 5, !.result = result]
       IN  proc' =
             IF groupContinues(isNaN, byte) THEN read
             ELSE IF proc.pc = "latGroup"
             THEN [read EXCEPT !.pc = "lngGroup", !.lat = @ + zigzag(result),
                               !.shift = 0, !.result = {}]
             ELSE [read EXCEPT !.pc = "while", !.lng = @ + zigzag(result),
                      !.coordinates = Append(@, [lat |-> proc.lat,
                                                 lng |-> proc.lng + zigzag(result)])]
    /\ UNCHANGED <<store, auth, listing, geoVars>>

InitLoop ==
    /\ store = EmptyTable
    /\ auth = InitialAuth(FreshExpiry)
    /\ listing = <<>>
    /\ proc = NotCalled
    /\ InitGeoIdle

NextLoop ==
    \/ \E encoded \in Strings(MaxChars) : decodeEntered(encoded)
    \/ loopTest
    \/ readChar

\* the function runs to completion once called: nothing else runs in between
SpecLoop == InitLoop /\ [][NextLoop]_vars /\ WF_vars(loopTest \/ readChar)

(***************************************************************************)
(* Properties                                                              *)
(***************************************************************************)

hasEvent(r, e) == Events(r, e) # {}
LastEvent(r) == r.log[Len(r.log)]

\* the steps of the pipeline body, as they appear in a request's log
PipelineEvents == {"list_get", "geocode", "exists_get", "batch_write", "count_query"}
\* the positions of a sync run once the trigger has been accepted
BodyPcs == {"listGet", "getCountry", "activityExists", "batchWrite",
            "getActivityCount", "completed", "failed"}
Acks(r) == {k \in Events(r, "respond") : r.log[k].status = 200}

RECURSIVE Flatten(_)
Flatten(batches) ==
    IF batches = <<>> THEN <<>> ELSE Head(batches) \o Flatten(Tail(batches))

\* the records a full run hands to storeActivities
Tagged(r) == [k \in 1..Len(r.activities) |-> withAthleteId(r.activities[k], r.athlete_id)]

\* the item a write of activity a by owner athlete_id leaves in the store
Written(a, athlete_id, now) ==
    [f \in DOMAIN a \cup {"athlete_id", "stored_at"} |->
        IF f = "athlete_id" THEN athlete_id.v
        ELSE IF f = "stored_at" THEN now ELSE a[f]]

\* the response a detail request has sent, if any
Answer(r) == r.log[CHOOSE k \in Events(r, "respond") : TRUE]
\* the detail request has been answered from the store
ServedFromStore(r) ==
    /\ r.pc = "closed"
    /\ hasEvent(r, "respond")
    /\ Answer(r).status = 200
    /\ ~hasEvent(r, "auth_get")

\* the step of C1: a caller passes the limiter
C1_PassStep ==
    \A c \in Callers :
        (caller[c].pc # "calling" /\ caller'[c].pc = "calling") =>
            clock - lastApiCall[caller'[c].apiName] >=
                (IF caller'[c].apiName = "google" THEN 100 ELSE 1100)
\* C1: whatever the interleaving of concurrent country resolutions, a
\* caller passes the limiter of a tier (takes the stamp and goes on to its
\* request) no sooner than the tier's minimum interval (100 ms precise
\* tier, 1100 ms free tier) after the previous pass of that tier.
C1_MinInterval == [][C1_PassStep]_vars
\* two resolutions wait in the limiter of the same tier at the same time
C1_Witness ==
    \E c, d \in Callers :
        /\ c # d
        /\ caller[c].pc = "waiting"
        /\ caller[d].pc = "waiting"
        /\ caller[c].apiName = caller[d].apiName

\* the step of C2: an existence check settles
C2_CheckStep ==
    \A p \in SyncProcs :
        (/\ proc[p].pc = "activityExists"
         /\ proc'[p] # proc[p]
         /\ proc[p].activities[proc[p].i].id \in DOMAIN store) =>
            /\ proc'[p].skippedCount = proc[p].skippedCount + 1
            /\ proc'[p].newActivitiesToStore = proc[p].newActivitiesToStore
\* C2: in an incremental sync, a record whose identifier is in the store
\* when its existence is checked is counted as skipped and is not put on
\* the list of records to write, whatever the existence lookup answers
\* (found, not found, store error).
C2_NeverRewrites == [][C2_CheckStep]_vars
\* an incremental run is checking a record whose identifier is in the store
C2_Witness ==
    \E p \in SyncProcs :
        /\ proc[p].pc = "activityExists"
        /\ proc[p].activities[proc[p].i].id \in DOMAIN store

\* the parts of C3: the state of a full run, and its successful batch writes
C3_FullRun ==
    \A p \in SyncProcs :
        LET r == proc[p]
        IN  r.full_sync =>
              /\ ~hasEvent(r, "exists_get")
              /\ r.skippedCount = 0
              /\ r.pc \in {"batchWrite", "getActivityCount", "completed"} =>
                    r.job.n = Len(r.activities)
              /\ r.pc \in {"getActivityCount", "completed"} =>
                    /\ r.job.totalStored = Len(r.activities)
                    /\ r.storedCount = Len(r.activities)
              /\ \A k \in 1..r.job.totalStored :
                    /\ r.activities[k].id \in DOMAIN store
                    /\ store[r.activities[k].id].athlete_id = r.athlete_id.v
C3_WriteStep ==
    \A p \in SyncProcs :
        (/\ proc[p].full_sync
         /\ proc[p].pc = "batchWrite"
         /\ proc'[p].job.totalStored > proc[p].job.totalStored) =>
            LET r == proc[p]
            IN  \A k \in (r.job.totalStored + 1)..(proc'[p].job.totalStored) :
                    /\ r.activities[k].id \in DOMAIN store'
                    /\ store'[r.activities[k].id] =
                          Written(r.activities[k], r.athlete_id, clock)
\* C3: a full sync makes no existence check; each batch write that succeeds
\* puts every record of the batch into the store under its identifier,
\* tagged with the owner's athlete_id as a string, whatever was stored
\* under that identifier before; and when every batch has succeeded every
\* fetched record has been written and is in the store with that tag.
C3_FullSyncOverwrites == [][C3_WriteStep]_vars /\ []C3_FullRun
\* a full run of two records has completed, and its 20-coordinate record
\* stands where a detail request had written the enriched one
C3_Witness ==
    \E p \in SyncProcs, q \in DetailProcs :
        /\ proc[p].pc = "completed"
        /\ proc[p].full_sync
        /\ proc[p].storedCount >= 2
        /\ proc[q].pc = "closed"
        /\ proc[q].job.status = "returned"
        /\ Len(proc[q].activities[1].coordinates) > 20
        /\ \E k \in 1..Len(proc[p].activities) :
              /\ proc[p].activities[k].id = proc[q].id
              /\ store[proc[q].id] =
                    Written(proc[p].activities[k], proc[p].athlete_id, clock)

\* the parts of C4: the retry counters and waits, and the retry step
C4_Bounded ==
    \A p \in Procs :
        LET r == proc[p]
            job == r.job
        IN  /\ job.retryCount <= 3
            /\ job.sends <= 4
            /\ (r.pc = "batchWrite" /\ job.sends > 0) =>
                  /\ job.sends = job.retryCount
                  /\ r.slept = (CASE job.retryCount = 1 -> 2000
                                  [] job.retryCount = 2 -> 4000
                                  [] job.retryCount = 3 -> 8000)
            /\ (hasEvent(r, "batch_write")
                /\ r.log[CHOOSE k \in Events(r, "batch_write") :
                            \A j \in Events(r, "batch_write") : j <= k].result
                     = "ProvisionedThroughputExceededException") =>
                  /\ job.status = "threw" /\ job.sends = 4 /\ job.retryCount = 3
                  /\ r.kind = "sync" => r.pc = "failed"
                  /\ r.kind = "detail" => hasEvent(r, "caught")
C4_RetryStep ==
    \A p \in Procs :
        (proc[p].pc = "batchWrite"
         /\ proc'[p].job.retryCount = proc[p].job.retryCount + 1) =>
            /\ proc'[p].pc = "batchWrite"
            /\ proc'[p].job.i = proc[p].job.i
            /\ proc'[p].job.batches = proc[p].job.batches
            /\ store' = store
\* C4: a batch write answered with throughput-exceeded is retried at most 3
\* times, after waits of 2 s, 4 s and 8 s, so the batch is sent at most 4
\* times; a fourth throughput-exceeded answer is propagated to the caller
\* (the sync run fails, the detail handler catches it); a retry sends the
\* same batch again and writes nothing.
C4_ThroughputRetry == [][C4_RetryStep]_vars /\ []C4_Bounded
\* a sync run has failed on the fourth throughput-exceeded answer of a batch
C4_Witness ==
    \E p \in SyncProcs :
        /\ proc[p].pc = "failed"
        /\ proc[p].job.status = "threw"
        /\ proc[p].job.sends = 4
        /\ LastEvent([proc[p] EXCEPT !.log = SubSeq(@, 1, Len(@) - 1)]).result
             = "ProvisionedThroughputExceededException"

\* C5: storeActivities on N activities builds ceil(N/25) batches of 1 to 25
\* items each, whose concatenation in order is the input; with N = 0 there
\* is no batch and no store call; when every batch has succeeded it
\* returns N.
C5_Batches ==
    LET r == proc[BulkProc]
        job == r.job
    IN  job.status # "none" =>
          /\ job.n = Len(r.activities)
          /\ Len(job.batches) = (job.n + 24) \div 25
          /\ \A b \in 1..Len(job.batches) :
                Len(job.batches[b]) >= 1 /\ Len(job.batches[b]) <= 25
          /\ Flatten(job.batches) = Tagged(r)
          /\ job.n = 0 =>
                /\ ~hasEvent(r, "batch_write")
                /\ r.pc \in {"getActivityCount", "completed"}
                /\ r.storedCount = 0
          /\ Cardinality(Events(r, "batch_write")) <= Len(job.batches)
          /\ r.pc = "completed" =>
                /\ r.storedCount = job.n
                /\ job.n > 0 =>
                      Cardinality(Events(r, "batch_write")) = Len(job.batches)
\* a run of more than 50 records has completed with three batches written
C5_Witness ==
    LET r == proc[BulkProc]
    IN  /\ r.pc = "completed"
        /\ r.storedCount > 50
        /\ Len(r.job.batches) = 3
        /\ Len(r.job.batches[3]) < 25

\* the parts of C6: the state after a propagated failure, and the failing step
C6_Partial ==
    LET r == proc[BulkProc]
        job == r.job
        failures == {k \in Events(r, "batch_write") : r.log[k].result # "ok"}
    IN  /\ job.status = "threw" <=> failures # {}
        /\ job.status = "threw" =>
              /\ r.pc = "failed"
              /\ LastEvent(r) = Caught("sync")
              /\ job.totalStored = 25 * (job.i - 1)
              /\ \A k \in Events(r, "batch_write") : r.log[k].batch <= job.i
              /\ \A k \in failures :
                    r.log[k].batch = job.i /\ k = Len(r.log) - 1
              /\ \E prior \in PriorStores :
                    /\ DOMAIN prior \subseteq DOMAIN store
                    /\ store = putAll(prior,
                                      SubSeq(Tagged(r), 1, job.totalStored), clock)
              /\ \A k \in (job.totalStored + 1)..Len(r.activities) :
                    \/ r.activities[k].id \notin DOMAIN store
                    \/ store[r.activities[k].id] \in
                          {BulkPrior[id] : id \in DOMAIN BulkPrior}
C6_FailStep ==
    (proc[BulkProc].job.status # "threw" /\ proc'[BulkProc].job.status = "threw")
        => store' = store
\* C6: when a batch's failure propagates out of storeActivities the run
\* ends as failed, no later batch is sent, and the store holds what it
\* held before the run together with the records of the batches written
\* before the failing one: nothing is rolled back, nothing else is written.
C6_PartialPersistence == [][C6_FailStep]_vars /\ []C6_Partial
\* the second batch has failed for good after the first was written over
\* a store that held records before the run
C6_Witness ==
    LET r == proc[BulkProc]
    IN  /\ r.pc = "failed"
        /\ r.job.status = "threw"
        /\ r.job.i = 2
        /\ r.job.totalStored = 25
        /\ 2 \in DOMAIN store
        /\ Len(r.activities) > 50

\* C7: for every accepted sync trigger the acknowledgment (status
\* in_progress, sync_type "full" with the full flag and "incremental"
\* without it) is sent before any step of the pipeline body (page request,
\* existence check, store write), and it is the only response the caller
\* gets: it carries nothing of the run's outcome.
C7_AckBeforePipeline ==
    \A p \in SyncProcs :
        LET r == proc[p]
        IN  /\ \A k \in 1..Len(r.log) :
                  r.log[k].e \in PipelineEvents => \E j \in Acks(r) : j < k
            /\ \A j \in Acks(r) :
                  /\ r.log[j].body.status = "in_progress"
                  /\ r.log[j].body.sync_type =
                        (IF r.full_sync THEN "full" ELSE "incremental")
                  /\ DOMAIN r.log[j].body =
                        {"message", "sync_type", "status", "started_at"}
            /\ Cardinality(Events(r, "respond")) <= 1
            /\ r.pc \in BodyPcs => Acks(r) # {}
\* an incremental run has checked, written and counted, and completed
C7_Witness ==
    \E p \in SyncProcs :
        /\ proc[p].pc = "completed"
        /\ ~proc[p].full_sync
        /\ proc[p].storedCount > 0
        /\ hasEvent(proc[p], "exists_get")
        /\ hasEvent(proc[p], "batch_write")

\* the parts of C8: the state of an accepted run, and the failing step
C8_Contained ==
    \A p \in SyncProcs :
        LET r == proc[p]
        IN  /\ Acks(r) # {} =>
                  /\ r.pc \in BodyPcs
                  /\ Cardinality(Events(r, "respond")) = 1
            /\ r.pc = "failed" <=> hasEvent(r, "caught")
            /\ r.pc = "failed" => LastEvent(r) = Caught("sync")
C8_FailStep ==
    \A p \in SyncProcs :
        (proc[p].pc # "failed" /\ proc'[p].pc = "failed") => store' = store
\* C8: a failure inside the background sync body never leaves
\* performBackgroundSync: an accepted run is always in the body, completed
\* or failed-and-logged, the trigger request has exactly the one response
\* (the acknowledgment), and the step that fails changes nothing in the
\* store.
C8_FailureContained == [][C8_FailStep]_vars /\ []C8_Contained
\* a run has failed on a batch write while the store holds records
C8_Witness ==
    \E p \in SyncProcs :
        /\ proc[p].pc = "failed"
        /\ proc[p].job.status = "threw"
        /\ store # EmptyTable

\* C9 as stated: a detail request for X is answered from the store, with
\* no upstream request and no write, exactly when the store holds X with
\* more than 20 coordinates; in every other case it fetches X from the
\* upstream and, unless X is excluded, writes the enriched record under X
\* and returns it.
C9_AsStated ==
    \A p \in DetailProcs :
        LET r == proc[p]
        IN  /\ ServedFromStore(r) =>
                  /\ Len(Answer(r).body.coordinates) > 20
                  /\ ~hasEvent(r, "activity_get")
                  /\ ~hasEvent(r, "batch_write")
            /\ (r.pc = "closed" /\ hasEvent(r, "auth_get")) =>
                  /\ hasEvent(r, "activity_get")
                  /\ DetailTable[r.id].decision = "keep" =>
                        /\ r.job.status = "returned"
                        /\ Answer(r) = Respond(200, r.activities[1])

\* the parts of C9 (amended): the lookup step, the write step, the paths
C9_LookupStep ==
    \A p \in DetailProcs :
        (proc[p].pc = "getActivity" /\ proc'[p].pc # "getActivity") =>
            LET id == proc[p].id
                hit == id \in DOMAIN store /\ Len(store[id].coordinates) > 20
                r2 == proc'[p]
            IN  /\ store' = store
                /\ \/ r2.pc = "closed" /\ LastEvent(r2).e = "respond"
                      /\ LastEvent(r2).status = 500
                   \/ hit /\ r2.pc = "closed"
                      /\ LastEvent(r2) = Respond(200, store[id])
                   \/ ~hit /\ r2.pc = "getAuthToken" /\ LastEvent(r2) = AuthGet
C9_WriteStep ==
    \A p \in DetailProcs :
        (/\ proc[p].pc = "batchWrite"
         /\ proc'[p].job.totalStored > proc[p].job.totalStored) =>
            /\ proc[p].id \in DOMAIN store'
            /\ store'[proc[p].id] =
                  Written(proc[p].activities[1], proc[p].athlete_id, clock)
            /\ Len(store'[proc[p].id].coordinates) > 20
                  \/ DetailTable[proc[p].id].decision = "keep"
C9_Paths ==
    \A p \in DetailProcs :
        LET r == proc[p]
        IN  /\ ServedFromStore(r) =>
                  /\ Len(Answer(r).body.coordinates) > 20
                  /\ ~hasEvent(r, "activity_get")
                  /\ ~hasEvent(r, "batch_write")
                  /\ r.job = NoJob
            /\ hasEvent(r, "activity_get") <=> r.accessToken # Null
            /\ hasEvent(r, "activity_get") =>
                  hasEvent(r, "store_get") /\ hasEvent(r, "auth_get")
            /\ r.job.status # "none" =>
                  /\ hasEvent(r, "activity_get")
                  /\ DetailTable[r.id].decision = "keep"
                  /\ r.job.batches = << <<r.activities[1]>> >>
                  /\ r.activities[1].id = r.id
                  /\ r.activities[1].athlete_id = r.athlete_id.v
                  /\ r.activities[1].coordinates =
                        DetailTable[r.id].detailed.coordinates
                  /\ Len(r.activities[1].coordinates) >= 3
            /\ (r.pc = "closed" /\ r.job.status # "none") =>
                  /\ Answer(r) = Respond(200, r.activities[1])
                  /\ r.job.status = "returned" <=> hasEvent(r, "batch_write")
                                                   /\ ~hasEvent(r, "caught")
            /\ (r.pc = "closed" /\ hasEvent(r, "activity_get")
                /\ Answer(r).status = 404) =>
                  /\ DetailTable[r.id].decision # "keep"
                  /\ r.job = NoJob
            /\ (r.pc \in {"getCountry", "batchWrite"}) =>
                  DetailTable[r.id].decision = "keep"
\* C9 amended: when the store lookup answers, the request is served from
\* the store, with no upstream request and no write, exactly when the
\* store holds X with more than 20 coordinates; otherwise it asks for the
\* requester's token and, once it has one, fetches X from the upstream;
\* when the upstream answers with an X that is not excluded and has at
\* least 3 coordinates it attempts one write of the enriched record under
\* X, which replaces any record there when it succeeds, and returns the
\* enriched record whether or not the write succeeded; an excluded X is
\* answered 404 without a write.
C9_StoreFirst == [][C9_LookupStep /\ C9_WriteStep]_vars /\ []C9_Paths
\* a detail request has been answered from the store with a record of more
\* than 20 coordinates, which an earlier detail request had written
C9_Witness ==
    \E p \in DetailProcs :
        /\ ServedFromStore(proc[p])
        /\ Answer(proc[p]).body = store[proc[p].id]
        /\ Len(store[proc[p].id].coordinates) > 20

\* C10: every record of the activity store has at least 3 coordinates and
\* comes from an upstream activity with trainer and manual unset and a type
\* other than VirtualRide and VirtualRun.
C10_StoredAreOutdoor ==
    \A id \in DOMAIN store :
        /\ Len(store[id].coordinates) >= 3
        /\ id \in UpstreamIds
        /\ ~upstreamActivity(id).trainer
        /\ ~upstreamActivity(id).manual
        /\ upstreamActivity(id).type \notin {"VirtualRide", "VirtualRun"}
\* the store holds a record written by a sync and one written by the detail path
C10_Witness ==
    /\ \E id \in DOMAIN store : Len(store[id].coordinates) > 20
    /\ \E id \in DOMAIN store : "elevation_gain" \notin DOMAIN store[id]

\* the type tag the six supported upstream types are given
SupportedTag(stravaType) ==
    IF stravaType \in {"Run", "Walk", "Hike", "TrailRun"} THEN "run"
    ELSE IF stravaType = "Ride" THEN "ride"
    ELSE IF stravaType = "Swim" THEN "swim"
    ELSE Null
\* C11: every record of the activity store, whether a sync or the detail
\* path wrote it, has a type in {run, ride, swim} that depends on the
\* upstream type only (Run, Walk, Hike, TrailRun: run; Ride: ride; Swim:
\* swim); no activity of another upstream type is in the store.
C11_TypesClosed ==
    \A id \in DOMAIN store :
        /\ store[id].type \in {"run", "ride", "swim"}
        /\ store[id].type = SupportedTag(upstreamActivity(id).type)
\* the store holds the record of an upstream activity of type Yoga
C11_Witness ==
    \E id \in DOMAIN store :
        /\ upstreamActivity(id).type = "Yoga"
        /\ store[id].type = Null
        /\ "elevation_gain" \in DOMAIN store[id]

\* the trigger of a sync whose owner has no auth record
Unauthenticated(r) ==
    /\ r.kind = "sync"
    /\ r.pc # "idle"
    /\ ~falsy(r.athlete_id)
    /\ toString(r.athlete_id) \notin DOMAIN auth
\* C15: a sync trigger for an owner without an auth record makes one token
\* lookup and nothing else: no acknowledgment, no background task, no
\* upstream request, no store write, no second lookup.  When the lookup
\* answers (no record) the trigger is answered 401; the only other ending
\* is a lookup that fails, answered 500.
C15_Unauthenticated ==
    \A p \in SyncProcs :
        LET r == proc[p]
        IN  Unauthenticated(r) =>
              /\ r.pc \in {"getAuthToken", "closed"}
              /\ r.pc = "getAuthToken" => r.log = <<AuthGet>>
              /\ r.pc = "closed" =>
                    /\ r.error \in {"No authentication data found", "store error"}
                    /\ r.error = "No authentication data found" =>
                          r.log = <<AuthGet,
                                    Respond(401, ErrorBody("Authentication expired"))>>
                    /\ r.error = "store error" =>
                          r.log = <<AuthGet,
                                    Respond(500, ErrorBody("Failed to start sync"))>>
              /\ r.accessToken = Null
              /\ r.job = NoJob
              /\ r.activities = <<>>
              /\ r.page = 0
              /\ \A id \in DOMAIN store : store[id].athlete_id # toString(r.athlete_id)
\* the trigger of an owner without an auth record has been answered 401
C15_Witness ==
    \E p \in SyncProcs :
        /\ Unauthenticated(proc[p])
        /\ proc[p].pc = "closed"
        /\ LastEvent(proc[p]).e = "respond"
        /\ LastEvent(proc[p]).status = 401

\* the parts of C16: the step in which the token lookup answers with a
\* record, the step in which the refreshed tokens have been written, and
\* the auth store
C16_LookupStep ==
    \A p \in Procs :
        LET key == toString(proc[p].athlete_id)
            r2 == proc'[p]
        IN  (/\ proc[p].pc = "getAuthToken" /\ r2.pc # "getAuthToken"
             /\ key \in DOMAIN auth /\ r2.error = Null) =>
                LET expiry == auth[key].expires_at
                    due == expiry # 0 /\ (clock \div 1000) + 300 >= expiry
                IN  /\ auth' = auth
                    /\ due => /\ r2.pc = "refreshPost"
                              /\ LastEvent(r2) = RefreshPost
                              /\ r2.accessToken = Null
                    /\ ~due => /\ r2.accessToken = auth[key].access_token
                               /\ ~hasEvent(r2, "refresh_post")
                               /\ ~hasEvent(r2, "auth_put")
C16_WriteStep ==
    \A p \in Procs :
        LET key == toString(proc[p].athlete_id)
            r2 == proc'[p]
        IN  /\ (proc[p].pc = "storeAuthToken" /\ r2.pc # "storeAuthToken"
                /\ r2.error = Null) =>
                  /\ DOMAIN auth' = DOMAIN auth
                  /\ \A k \in DOMAIN auth \ {key} : auth'[k] = auth[k]
                  /\ auth'[key].athlete_id = key
                  /\ auth'[key].access_token = proc[p].tokenData.access_token
                  /\ auth'[key].refresh_token = proc[p].tokenData.refresh_token
                  /\ auth'[key].expires_at = proc[p].tokenData.expires_at
                  /\ auth'[key].access_token # auth[key].access_token
                        \/ auth[key].access_token = "tokB"
                  /\ r2.accessToken = auth'[key].access_token
            /\ (proc[p].pc = "refreshPost" /\ r2.pc = "storeAuthToken") =>
                  /\ r2.tokenData.access_token = "tokB"
                  /\ r2.tokenData.refresh_token = "refB"
                  /\ r2.tokenData.expires_at = (clock \div 1000) + 21600
C16_OneRecord ==
    /\ \A k \in DOMAIN auth : auth[k].athlete_id = k
    /\ \A p \in Procs :
          LET r == proc[p]
          IN  /\ hasEvent(r, "auth_put") => hasEvent(r, "refresh_post")
              /\ (r.accessToken # Null /\ hasEvent(r, "refresh_post")) =>
                    hasEvent(r, "auth_put")
              /\ r.accessToken # Null =>
                    toString(r.athlete_id) \in DOMAIN auth
C16_WritesOnlyThere ==
    auth' # auth => \E p \in Procs : proc[p].pc = "storeAuthToken"
\* C16: when the token lookup of getValidAccessToken answers with the
\* athlete's record, a refresh is started exactly when the record has an
\* expiry and now + 300 >= expiry; a refresh that succeeds writes the new
\* tokens under the same athlete key, leaves every other record alone (one
\* record per athlete) and returns the new access token; without a refresh
\* the stored access token is returned and nothing is written.
C16_RefreshWhenDue ==
    [][C16_LookupStep /\ C16_WriteStep /\ C16_WritesOnlyThere]_vars /\ []C16_OneRecord
\* a run got its access token from a refresh, and the auth store holds the
\* new tokens under the athlete's key
C16_Witness ==
    \E p \in Procs :
        /\ proc[p].accessToken = "tokB"
        /\ hasEvent(proc[p], "auth_put")
        /\ auth["7"].access_token = "tokB"
        /\ auth["7"].created_at = clock
        /\ auth["7"].expires_at = (clock \div 1000) + 21600

\* the page requests of a run, and how many of them up to log position k
PageRequests(r) == Events(r, "list_get")
RequestsUpTo(r, k) == Cardinality({j \in PageRequests(r) : j <= k})
\* the parts of C14: the page requests of a run so far, and the step that
\* issues a page request
C14_Pages ==
    \A p \in SyncProcs :
        LET r == proc[p]
            n == Cardinality(PageRequests(r))
        IN  /\ \A k \in PageRequests(r) :
                  /\ r.log[k].page = RequestsUpTo(r, k)
                  /\ r.log[k].per_page = 50
            /\ n <= Len(listing) + 1
            /\ r.pc \in {"listGet", "getCountry"} => r.page = n
            /\ r.pc \in {"activityExists", "batchWrite", "getActivityCount",
                          "completed"} => n = Len(listing) + 1
C14_RequestStep ==
    \A p \in SyncProcs :
        LET r == proc[p]
            r2 == proc'[p]
        IN  /\ (r.pc = "listGet" /\ r2.pc # "listGet" /\ r2.pc # "failed") =>
                  (r2.pc = "getCountry") = (r.page <= Len(listing))
            /\ (r.pc # "idle"
                /\ Cardinality(PageRequests(r2)) > Cardinality(PageRequests(r))) =>
                  /\ LastEvent(r2) = [e |-> "list_get", page |-> r.page + 1,
                                      per_page |-> 50]
                  /\ r.page <= Len(listing)
                  /\ r2.slept = (IF r.page = 0 THEN 0 ELSE 200)
\* C14: the fetch phase requests pages 1, 2, 3, ... in this order, 50
\* records a page, and ends at the first page that comes back empty, not
\* before (a page whose records are all excluded is followed by the next
\* page) and not after; every page request but the first is issued after a
\* 200 ms delay that follows the non-empty page before it.
C14_Pagination == [][C14_RequestStep]_vars /\ []C14_Pages
\* the run has gone past a first page whose records were all excluded and
\* kept a record of the second page
C14_Witness ==
    \E p \in SyncProcs :
        /\ listing = ListingB
        /\ proc[p].pc = "completed"
        /\ Cardinality(PageRequests(proc[p])) = 3
        /\ Len(proc[p].activities) = 1

\* a tier gave no country: it threw, or returned the empty string or "Unknown"
TierFailed(a) == a.threw \/ a.value = "" \/ a.value = "Unknown"
\* the countries the range table names, and the ranges of the three points
RangeNames == {"France", "Germany", "United Kingdom", "Italy", "Spain", "Europe",
               "United States", "Canada", "Bahrain", "Australia"}
RangeOf(point) ==
    IF point = StartBahrain THEN "Bahrain"
    ELSE IF point = StartStockholm THEN "Europe"
    ELSE "Other"
\* C12: whatever the coordinate pair and whatever the two network tiers
\* come to (country, empty result, "Unknown", over quota, zero results,
\* network error, timeout, no key), getCountryFromCoordinates ends by
\* returning a non-empty string, never by a throw; when both tiers have
\* failed the result is the range table's, "Other" when no range holds the
\* point, and otherwise it is the country of the first tier that gave one.
C12_AlwaysACountry ==
    \A c \in Callers :
        LET r == caller[c]
        IN  /\ r.pc \in {"idle", "waiting", "calling", "resolved"}
            /\ r.pc = "resolved" =>
                  LET last == r.trail[Len(r.trail)]
                  IN  /\ r.result \notin {"", Null}
                      /\ r.result \in RangeNames \cup {"Other", "Sweden", "Kenya"}
                      /\ ~TierFailed(last) => r.result = last.value
                      /\ TierFailed(last) =>
                            /\ last.tier = "nominatim"
                            /\ TierFailed(r.trail[1])
                            /\ r.result = RangeOf(r.point)
                            /\ r.result = "Other" <=> r.point = StartNairobi
\* both tiers failed for a point outside every range: the result is "Other"
C12_Witness ==
    \E c \in Callers :
        /\ caller[c].pc = "resolved"
        /\ caller[c].key
        /\ Len(caller[c].trail) = 2
        /\ caller[c].trail[1].value = "Unknown"
        /\ caller[c].trail[2].threw
        /\ caller[c].result = "Other"

\* C13: within one resolution the tiers are tried in the order precise,
\* free, range table: the free tier is entered only after the precise
\* tier threw or returned an empty or "Unknown" result, the range table is
\* used only after the free tier did so too, and no tier is tried twice;
\* without a service key the precise tier throws without a request and
\* without entering its limiter (its stamp is never taken) and the
\* resolution goes on with the free tier.
C13_TierOrder ==
    \A c \in Callers :
        LET r == caller[c]
            n == Len(r.trail)
            inTier == r.pc \in {"waiting", "calling"}
        IN  /\ n <= 2
            /\ n >= 1 => r.trail[1].tier = "google"
            /\ n = 2 => r.trail[2].tier = "nominatim" /\ TierFailed(r.trail[1])
            /\ inTier => r.apiName \in {"google", "nominatim"}
            /\ (inTier /\ r.apiName = "google") => r.key /\ n = 0
            /\ (inTier /\ r.apiName = "nominatim") => n = 1 /\ TierFailed(r.trail[1])
            /\ r.pc = "resolved" =>
                  /\ n >= 1
                  /\ TierFailed(r.trail[n]) => n = 2
                  /\ ~TierFailed(r.trail[n]) => r.result = r.trail[n].value
            /\ (r.key /\ n >= 1) => r.trail[1].requested
            /\ n = 2 => r.trail[2].requested
            /\ ~r.key =>
                  /\ lastApiCall.google = 0
                  /\ r.pc # "idle" =>
                        r.trail[1] = [tier |-> "google", requested |-> FALSE,
                                      threw |-> TRUE, value |-> Null]
\* without a key, a resolution has come to the range table by way of the
\* free tier
C13_Witness ==
    \E c \in Callers :
        /\ ~caller[c].key
        /\ caller[c].pc = "resolved"
        /\ Len(caller[c].trail) = 2
        /\ caller[c].trail[2].requested
        /\ caller[c].trail[2].threw
        /\ caller[c].result = "Europe"

\* the identifiers a run has found absent and is going to write
Pending(r) == {r.newActivitiesToStore[k].id : k \in 1..Len(r.newActivitiesToStore)}
\* the parts of C17: the step of an existence check that the store answers,
\* and the step of a batch write that succeeds
C17_CheckStep ==
    \A p \in Racers :
        (proc[p].pc = "activityExists" /\ proc'[p] # proc[p]) =>
            LET X == proc[p].activities[proc[p].i].id
            IN  /\ X \notin DOMAIN store => X \in Pending(proc'[p])
                /\ X \in DOMAIN store =>
                      /\ X \notin Pending(proc'[p])
                      /\ proc'[p].skippedCount = proc[p].skippedCount + 1
C17_WriteStep ==
    \A p \in Racers :
        (/\ proc[p].pc = "batchWrite"
         /\ proc'[p].job.totalStored > proc[p].job.totalStored) =>
            /\ Pending(proc[p]) \subseteq DOMAIN store'
            /\ proc'[p].job.totalStored = Len(proc[p].newActivitiesToStore)
\* C17: nothing excludes two incremental sync runs of one owner from each
\* other between the existence checks and the batch write: an existence
\* check reports X absent whenever the store does not hold X, also while
\* another run of the owner has found X absent and not yet written it, and
\* a batch write stores and counts every record it was given, also those
\* another run has written since the check (so that both runs can write X
\* and count it as stored).
C17_NoExclusion == [][C17_CheckStep /\ C17_WriteStep]_vars
\* two runs of the owner have both found X absent, both written X and both
\* counted it as stored
C17_Witness ==
    \E p, q \in Racers :
        /\ p # q
        /\ proc[p].athlete_id = proc[q].athlete_id
        /\ ~proc[p].full_sync /\ ~proc[q].full_sync
        /\ proc[p].pc = "completed" /\ proc[q].pc = "completed"
        /\ \E X \in DOMAIN store :
              /\ X \in Pending(proc[p]) /\ X \in Pending(proc[q])
              /\ ExistsGet(X) \in {proc[p].log[k] : k \in 1..Len(proc[p].log)}
              /\ ExistsGet(X) \in {proc[q].log[k] : k \in 1..Len(proc[q].log)}
        /\ proc[p].storedCount = Len(proc[p].newActivitiesToStore)
        /\ proc[q].storedCount = Len(proc[q].newActivitiesToStore)
        /\ proc[p].skippedCount = 0 /\ proc[q].skippedCount = 0
        /\ proc[p].storedCount >= 1

\* the names of InputNames that hold none of the six keywords in any case
PlainNames == {NameLunch, NameCityRace}
\* how many points the full polyline of an input encodes
FullPoints(activity) ==
    CHOOSE n \in {0, 2, 3} : activity.map.polyline = Poly(HeadBahrain, n)
\* C18: whatever its polylines decode to, the fetch phase puts out no
\* activity whose trainer or manual flag is set, whose type is VirtualRide
\* or VirtualRun, whose name holds one of zwift, peloton, virtual, indoor,
\* trainer, treadmill in any case, or whose start coordinate is missing or
\* empty.
C18_ListFilter ==
    proc["list"].decision = "keep" =>
        /\ proc["list"].output.id = Input.id
        /\ ~Input.trainer
        /\ ~Input.manual
        /\ Input.type \notin {"VirtualRide", "VirtualRun"}
        /\ Input.name \in PlainNames
        /\ Input.start_latlng.present
        /\ Input.start_latlng.value # <<>>
\* the list path has dropped an activity of 3 coordinates for a keyword in
\* capitals alone
C18_Witness ==
    /\ proc["list"].pc = "done"
    /\ proc["list"].decision = "skip_virtual"
    /\ Input.name = NameZwift
    /\ ~Input.trainer /\ ~Input.manual
    /\ Input.type = "Ride"
    /\ Input.start_latlng.value = StartBahrain
    /\ Input.map.summary_polyline = Poly(HeadBahrain, 3)

\* the exclusion rule of the detail path, as C19 words it
DetailExcluded(activity) ==
    \/ activity.trainer
    \/ activity.manual
    \/ activity.type \in {"VirtualRide", "VirtualRun"}
    \/ ~activity.start_latlng.present
    \/ FullPoints(activity) = 0
    \/ FullPoints(activity) < 3
\* C19: the detail path excludes an upstream activity exactly when its
\* trainer or manual flag is set, its type is VirtualRide or VirtualRun,
\* its start coordinate is missing, its full polyline is missing or the
\* full polyline decodes to fewer than 3 coordinates; the name plays no
\* part, so an activity the list path drops for a keyword in its name
\* alone is accepted by the detail path, which builds its record.
C19_DetailFilter ==
    proc["detail"].pc = "done" =>
        /\ proc["detail"].decision # "keep" <=> DetailExcluded(Input)
        /\ proc["detail"].decision = "keep" =>
              /\ proc["detail"].output.id = Input.id
              /\ proc["detail"].output.name = Input.name
              /\ Len(proc["detail"].output.coordinates) = FullPoints(Input)
\* an activity with a keyword in its name, dropped by the list path for
\* that alone, has been accepted by the detail path
C19_Witness ==
    /\ proc["list"].decision = "skip_virtual"
    /\ proc["detail"].decision = "keep"
    /\ Input.name = NameTreadmill
    /\ Input.type = "Run"
    /\ Input.map.summary_polyline = Poly(HeadBahrain, 3)
    /\ ~DetailExcluded(Input)
    /\ proc["detail"].output.type = "run"

\* the sum of the first k deltas of one axis (1: latitude, 2: longitude)
RECURSIVE SumOfDeltas(_, _, _)
SumOfDeltas(deltas, k, axis) ==
    IF k = 0 THEN 0 ELSE SumOfDeltas(deltas, k - 1, axis) + deltas[k][axis]
\* C20: decodePolyline on a well-formed encoding of n coordinate pairs
\* (groups of 5 bits, offset 63, continuation bit 0x20, zig-zag coded
\* deltas) returns n points in the order of the input, point k being the
\* sum of the first k latitude deltas and the sum of the first k longitude
\* deltas, counted from 0 (in units of 1e-5 degrees); the empty string
\* gives no point.
C20_DecodesDeltas ==
    /\ \A k \in 1..Len(proc.encoded) : proc.encoded[k] \in 63..126
    /\ proc.pc = "returned" =>
          /\ Len(proc.points) = Len(proc.deltas)
          /\ \A k \in 1..Len(proc.deltas) :
                /\ proc.points[k].lat = SumOfDeltas(proc.deltas, k, 1)
                /\ proc.points[k].lng = SumOfDeltas(proc.deltas, k, 2)
          /\ proc.encoded = <<>> => proc.points = <<>>
\* two points have been decoded from values of several groups, the second
\* by a negative delta
C20_Witness ==
    /\ proc.pc = "returned"
    /\ proc.deltas = << <<2600000, 5060000>>, <<-9000000, -36000000>> >>
    /\ proc.points = <<[lat |-> 2600000, lng |-> 5060000],
                       [lat |-> -6400000, lng |-> -30940000]>>
    /\ Len(proc.encoded) > 16

\* the records of an owner, and the two filters of the query
OwnedBy(athleteId) == {store[k] : k \in {j \in DOMAIN store : store[j].athlete_id = athleteId}}
TypeHolds(item, f) == f.k = "undefined" \/ f.v = "" \/ f.v = "all" \/ f.v = item.type
RaceHolds(item, f) ==
    f.k = "undefined" \/ f.v = "" \/ f.v = "all" \/ item.isRace = (f.v = "race")

\* the list getActivities hands to the handler
C21_ListStep ==
    [][\A p \in DOMAIN proc :
          (proc[p].pc = "getActivities" /\ proc'[p].pc = "queryCount")
          => proc'[p].items =
               {a \in OwnedBy(proc[p].athlete_id.v) :
                   /\ TypeHolds(a, proc[p].filters.activity_type)
                   /\ RaceHolds(a, proc[p].filters.race_filter)}]_vars

\* the response of the query: the list, its length, and the count query's
\* answer (the owner's records when it answers, 0 when it fails)
C21_AnswerStep ==
    [][\A p \in DOMAIN proc :
          (proc[p].pc = "queryCount" /\ proc'[p].pc = "closed")
          => LET answer == LastEvent(proc'[p])
             IN  /\ answer.e = "respond" /\ answer.status = 200
                 /\ answer.body.activities = proc[p].items
                 /\ answer.body.returned = Cardinality(proc[p].items)
                 /\ answer.body.total =
                      IF hasEvent(proc'[p], "caught") THEN 0
                      ELSE Cardinality(OwnedBy(proc[p].athlete_id.v))]_vars

StatusAnswered(r) ==
    /\ r.pc = "closed" /\ r.kind = "reader"
    /\ Len(r.log) >= 2 /\ r.log[1].e = "count_query"

C22_StatusStep ==
    [][\A p \in DOMAIN proc :
          (proc[p].pc = "statusCount" /\ proc'[p].pc = "closed")
          => LET answer == LastEvent(proc'[p])
             IN  /\ answer.e = "respond" /\ answer.status = 200
                 /\ answer.body.status = "completed"
                 /\ answer.body.total_activities =
                      IF hasEvent(proc'[p], "caught") THEN 0
                      ELSE Cardinality(OwnedBy(proc[p].athlete_id.v))]_vars

\* C22: the sync-status query answers status "completed" with the owner's
\* stored count whatever a sync of that owner is doing at the time
C22_AlwaysCompleted == C22_StatusStep

\* C22 witness: the status query answered while the owner's sync is
\* persisting its first batch
C22_Witness ==
    /\ proc[QuerySync].pc = "batchWrite"
    /\ proc[QuerySync].athlete_id = JsNum("7")
    /\ StatusAnswered(proc[QueryReader])
    /\ proc[QueryReader].athlete_id = JsStr("7")
    /\ LastEvent(proc[QueryReader]).body.status = "completed"
    /\ LastEvent(proc[QueryReader]).body.total_activities = 3

Tiers == {"google", "nominatim"}
Max(a, b) == IF a >= b THEN a ELSE b

\* the resolver enters rateLimitedCall in this step
EntersLimiter ==
    /\ caller[Resolver].pc \in {"idle", "calling"}
    /\ caller'[Resolver].pc \in {"waiting", "calling"}
    /\ caller'[Resolver] # caller[Resolver]

\* on entry the call waits max(0, interval - (now - last stamp)), and with no
\* wait due it takes the stamp at once
C23_WaitStep ==
    [][EntersLimiter =>
         LET tier == caller'[Resolver].apiName
             wait == Max(0, minIntervalMs(tier) - (clock - lastApiCall[tier]))
         IN  IF wait = 0
             THEN /\ caller'[Resolver].pc = "calling"
                  /\ lastApiCall'[tier] = clock
             ELSE /\ caller'[Resolver].pc = "waiting"
                  /\ caller'[Resolver].wake = clock + wait
                  /\ lastApiCall' = lastApiCall]_vars

\* a waiting call is never given up: when its wait is over it takes the stamp
\* and goes on to its request
C23_NeverRejected ==
    [][caller[Resolver].pc = "waiting" /\ caller'[Resolver] # caller[Resolver]
         => /\ clock >= caller[Resolver].wake
            /\ caller'[Resolver].pc = "calling"
            /\ caller'[Resolver].apiName = caller[Resolver].apiName
            /\ lastApiCall'[caller[Resolver].apiName] = clock]_vars

\* a tier's new stamp is the current time, at least the interval after its
\* previous stamp, and the other tier's stamp stays
C23_StampStep ==
    [][\A tier \in Tiers :
          lastApiCall'[tier] # lastApiCall[tier]
          => /\ lastApiCall'[tier] = clock
             /\ lastApiCall'[tier] - lastApiCall[tier] >= minIntervalMs(tier)
             /\ caller'[Resolver].apiName = tier
             /\ \A other \in Tiers \ {tier} :
                   lastApiCall'[other] = lastApiCall[other]]_vars

\* C23: with the calls to a tier made one at a time, rateLimitedCall waits
\* max(0, interval - (now - last stamp of the tier)) and then stamps the tier
\* with the time after the wait, so that consecutive stamps of a tier are at
\* least the interval apart; no call is rejected and the other tier's stamp
\* is left alone
C23_Limiter == C23_WaitStep /\ C23_NeverRejected /\ C23_StampStep

\* C23 witness: a call of the free tier, made after an earlier call of both
\* tiers, waits for the rest of the free tier's interval
C23_Witness ==
    /\ caller[Resolver].pc = "waiting"
    /\ caller[Resolver].apiName = "nominatim"
    /\ lastApiCall.nominatim >= StartClock
    /\ lastApiCall.google > lastApiCall.nominatim
    /\ caller[Resolver].wake = lastApiCall.nominatim + nominatimInterval
    /\ caller[Resolver].wake > clock
    /\ clock > lastApiCall.nominatim

\* the existence checks and store writes of a run, as positions of its log
Persisting(r) == Events(r, "exists_get") \cup Events(r, "batch_write")
\* the run's catch block ran right after a page request
PageFailed(r) ==
    \E k \in Events(r, "caught") : k > 1 /\ r.log[k - 1].e = "list_get"

\* C24: within a sync run every existence check and every store write comes
\* after the request of the page behind the last one of the listing (the
\* empty page that ends pagination); a run whose page request failed is
\* failed and has made no existence check and no store write, whatever it
\* had fetched and normalized before
C24_FetchBeforePersist ==
    \A p \in SyncProcs :
        LET r == proc[p]
        IN  /\ \A k \in Persisting(r) : RequestsUpTo(r, k) = Len(listing) + 1
            /\ r.pc = "listGet" => Persisting(r) = {}
            /\ PageFailed(r) => r.pc = "failed" /\ Persisting(r) = {}

\* C24 witness: a run that failed on its second page request with a
\* normalized record in hand and nothing written
C24_Witness ==
    \E p \in SyncProcs :
        /\ proc[p].pc = "failed"
        /\ PageFailed(proc[p])
        /\ Cardinality(PageRequests(proc[p])) >= 2
        /\ proc[p].activities # <<>>
        /\ Persisting(proc[p]) = {}

\* the background task of a run is under way
Running(r) == r.pc \in BodyPcs \ {"completed", "failed"}
SyncErrors(r) == {k \in Events(r, "caught") : r.log[k].kind = "sync"}

\* a run that is under way ends
C25_Ends ==
    \A p \in {LiveRun} : Running(proc[p]) ~> proc[p].pc \in {"completed", "failed"}

\* completed and failed exclude each other and are final: a failed run has
\* logged its error last, a completed run has logged none and has its count
C25_OneEnd ==
    \A p \in DOMAIN proc :
        LET r == proc[p]
        IN  /\ r.pc = "failed" => LastEvent(r) = Caught("sync")
            /\ r.pc = "completed"
                 => SyncErrors(r) = {} /\ LastEvent(r).e = "count_query"
C25_Final ==
    [][\A p \in DOMAIN proc :
          (proc[p].pc \in {"completed", "failed"} /\ proc'[p] # proc[p])
          => proc'[p] = IdleProc("sync")]_vars

\* a batch is sent at most maxRetries + 1 times
C25_FiniteSends ==
    \A p \in DOMAIN proc :
        /\ proc[p].job.retryCount <= maxRetries
        /\ proc[p].job.sends <= maxRetries + 1

\* a run that waits for a page leaves that position only with the response
C25_NoTimeout ==
    [][\A p \in DOMAIN proc :
          (proc[p].pc = "listGet" /\ proc'[p] # proc[p])
          => \E o \in GetOutcomes : listGetReturns(p, o)]_vars

\* C25: when every awaited call returns, every sync run ends, as completed
\* or as failed and never both, and every batch is sent finitely often;
\* nothing but the page response moves a run that waits for a page
C25_Terminates ==
    C25_Ends /\ []C25_OneEnd /\ C25_Final /\ []C25_FiniteSends /\ C25_NoTimeout

\* C25 witness: a full run of two batches has completed
C25_Witness ==
    /\ proc[LiveRun].pc = "completed"
    /\ proc[LiveRun].storedCount = batchSize + 1
    /\ \E k \in Events(proc[LiveRun], "batch_write") :
          proc[LiveRun].log[k].batch = 2

\* the send of the current batch is rejected with an error that is not
\* throughput-exceeded: the job throws at once, with the retry counter and
\* the store as they were and no backoff wait, and the run fails
C26_FailStep ==
    [][batchWriteReturns(BulkProc, "ValidationException")
         => LET r == proc[BulkProc]
                r2 == proc'[BulkProc]
            IN  /\ r2.job.status = "threw"
                /\ r2.job.i = r.job.i
                /\ r2.job.retryCount = r.job.retryCount
                /\ r2.job.sends = r.job.sends + 1
                /\ r2.job.totalStored = r.job.totalStored
                /\ r2.slept = 0
                /\ r2.pc = "failed"
                /\ store' = store]_vars

\* a job that threw sends nothing more: the run is over, and the last write
\* of its log is the rejected one
C26_NoLaterBatch ==
    LET r == proc[BulkProc]
    IN  r.job.status = "threw"
        => /\ r.pc = "failed"
           /\ \A k \in Events(r, "batch_write") : r.log[k].batch <= r.job.i
           /\ \E k \in Events(r, "batch_write") :
                 /\ r.log[k].batch = r.job.i /\ r.log[k].result # "ok"
                 /\ \A j \in Events(r, "batch_write") : j <= k

\* C26: a batch write rejected with an error other than throughput-exceeded
\* is not retried; the error propagates at its first occurrence without a
\* backoff wait and no later batch is sent
C26_NoRetry == C26_FailStep /\ []C26_NoLaterBatch

\* C26 witness: the second of three batches was rejected on its first send
C26_Witness ==
    LET r == proc[BulkProc]
    IN  /\ r.pc = "failed"
        /\ Len(r.job.batches) = 3
        /\ r.job.i = 2 /\ r.job.sends = 1 /\ r.job.retryCount = 0
        /\ r.job.totalStored = batchSize
        /\ r.log[Len(r.log) - 1] = BatchWrite(2, "ValidationException")

\* the detail request answers once storeActivities has settled: with the
\* enriched activity, whether the write went through or threw; a write that
\* threw has left the store as it was
C27_AnswerStep ==
    [][\A p \in DetailProcs :
          (proc[p].pc = "batchWrite" /\ proc'[p].pc = "closed")
          => LET r == proc[p]
                 r2 == proc'[p]
             IN  /\ LastEvent(r2) = Respond(200, r.activities[1])
                 /\ Len(r.activities[1].coordinates) >= 3
                 /\ r2.job.status \in {"returned", "threw"}
                 /\ r2.job.status = "threw"
                      => /\ store' = store
                         /\ r2.log[Len(r2.log) - 1] = Caught("store")
                 /\ r2.job.status = "returned"
                      => /\ r.id \in DOMAIN store'
                         /\ ~hasEvent(r2, "caught")]_vars

\* C27: on the upstream branch of the detail request a failed write of the
\* enriched record is caught: the request answers 200 with the enriched
\* activity all the same and the store stays as it was
C27_WriteFailureTolerated == C27_AnswerStep

\* C27 witness: a detail request answered with the enriched activity after
\* its write was given up, the record not being in the store
C27_Witness ==
    \E p \in DetailProcs :
        LET r == proc[p]
        IN  /\ r.pc = "closed"
            /\ r.job.status = "threw"
            /\ r.job.retryCount = maxRetries
            /\ LastEvent(r) = Respond(200, r.activities[1])
            /\ r.id \notin DOMAIN store

\* C28: every auth record holds the athlete's profile snapshot, also after a
\* token refresh has replaced the tokens and the expiry under the same key
C28_ProfileKept ==
    \A k \in DOMAIN auth :
        /\ auth[k].athlete_id = k
        /\ auth[k].athlete_info # Null
        /\ auth[k].athlete_info = InitialAuth(0)[k].athlete_info

\* C28 witness: the record of athlete 7 after a refresh, with the new tokens
\* and without the profile snapshot
C28_Witness ==
    /\ "7" \in DOMAIN auth
    /\ auth["7"].access_token = refreshedTokenData.access_token
    /\ auth["7"].refresh_token = refreshedTokenData.refresh_token
    /\ auth["7"].athlete_info = Null

\* a record as the sync pipeline writes it: without the fields that only the
\* detail path adds
SyncShaped(item) == "elevation_gain" \notin DOMAIN item

\* the records a sync run hands to storeActivities have 3 to 20 coordinates
C29_Handed ==
    \A p \in SyncProcs :
        \A b \in 1..Len(proc[p].job.batches) :
            \A k \in 1..Len(proc[p].job.batches[b]) :
                LET a == proc[p].job.batches[b][k]
                IN  /\ SyncShaped(a)
                    /\ Len(a.coordinates) >= 3 /\ Len(a.coordinates) <= 20

\* the records of the store that a sync run wrote last have 3 to 20
\* coordinates and are no store hit
C29_Stored ==
    \A id \in DOMAIN store :
        SyncShaped(store[id])
        => /\ Len(store[id].coordinates) >= 3 /\ Len(store[id].coordinates) <= 20
           /\ ~storeHit(store, id)

\* a detail request that finds such a record is not answered from the
\* store: once the lookup has answered it is on the upstream branch
C29_LookupStep ==
    [][\A p \in DetailProcs :
          (/\ proc[p].pc = "getActivity" /\ proc'[p].pc # "getActivity"
           /\ proc[p].id \in DOMAIN store /\ SyncShaped(store[proc[p].id]))
          => \/ proc'[p].pc = "getAuthToken" /\ LastEvent(proc'[p]) = AuthGet
             \/ /\ proc'[p].pc = "closed" /\ proc'[p].error = "store error"
                /\ LastEvent(proc'[p]).status = 500]_vars

\* C29: every record written by a sync run, full or incremental, has between
\* 3 and 20 coordinates and so is never a store hit of the detail path: a
\* detail request for an activity that was only synced takes the upstream
\* branch
C29_SyncedIsNoHit == []C29_Handed /\ []C29_Stored /\ C29_LookupStep

\* C29 witness: a detail request has asked the upstream for an activity whose
\* stored record is the sync record of 20 coordinates
C29_Witness ==
    \E p \in DetailProcs :
        /\ hasEvent(proc[p], "activity_get")
        /\ proc[p].id \in DOMAIN store
        /\ SyncShaped(store[proc[p].id])
        /\ Len(store[proc[p].id].coordinates) = 20

\* a full run's write replaces each record of the batch, enriched or not, by
\* the summary record, which is no store hit
C30_FullOverwrites ==
    [][batchWriteReturns(LiveRun, "ok") /\ proc[LiveRun].full_sync
         => LET job == proc[LiveRun].job
            IN  \A k \in 1..Len(job.batches[job.i]) :
                    LET a == job.batches[job.i][k]
                    IN  /\ store'[a.id] = putItem(a, clock)
                        /\ SyncShaped(store'[a.id])
                        /\ Len(store'[a.id].coordinates) <= 20
                        /\ ~storeHit(store', a.id)]_vars

\* an incremental run's write changes no record that was there
C30_IncrementalKeeps ==
    [][batchWriteReturns(LiveRun, "ok") /\ ~proc[LiveRun].full_sync
         => \A id \in DOMAIN store : store'[id] = store[id]]_vars

\* C30: a full sync replaces an enriched record by the summary record of at
\* most 20 coordinates without the detail fields, so that it is no store hit
\* any more; an incremental sync that runs with no other writer leaves every
\* record that was in the store unchanged
C30_Overwrites == C30_FullOverwrites /\ C30_IncrementalKeeps

\* C30 witness: an incremental run, alone, has written activity 1 after its
\* existence check, and the store holds the summary record of activity 1
C30_Witness ==
    LET r == proc[LiveRun]
    IN  /\ r.pc = "completed" /\ ~r.full_sync
        /\ listing = << <<1>> >>
        /\ hasEvent(r, "exists_get")
        /\ r.storedCount = 1
        /\ 1 \in DOMAIN store /\ SyncShaped(store[1])

\* the request whose batch write went through in this step
WroteBatch(p) ==
    proc[p].pc = "batchWrite" /\ proc'[p].job.totalStored > proc[p].job.totalStored
BatchIds(batch) == {batch[k].id : k \in 1..Len(batch)}

\* a successful batch write leaves, under each identifier of the batch, the
\* item of that batch, whatever was there and whoever had written it, and
\* leaves the records of all other identifiers
C31_WriteStep ==
    [][\A p \in DOMAIN proc :
          WroteBatch(p)
          => LET batch == proc[p].job.batches[proc[p].job.i]
             IN  /\ \A k \in 1..Len(batch) :
                       store'[batch[k].id] = putItem(batch[k], clock)
                 /\ DOMAIN store' = DOMAIN store \cup BatchIds(batch)
                 /\ \A id \in DOMAIN store \ BatchIds(batch) :
                       store'[id] = store[id]]_vars

\* the store changes with a successful batch write only
C31_OnlyWrites ==
    [][store' # store => \E p \in DOMAIN proc : WroteBatch(p)]_vars

\* the table is keyed by the identifier alone: the item under a key is the
\* record of that identifier
C31_Keyed == \A id \in DOMAIN store : store[id].id = id

\* C31: under every interleaving of full syncs, incremental syncs and detail
\* requests the store holds one record per identifier, the one of the most
\* recent successful write for it, whichever owner or path wrote it
C31_LastWriterWins == C31_WriteStep /\ C31_OnlyWrites /\ []C31_Keyed

\* C31 witness: athlete 7's sync has written activity 2 and the store holds
\* the enriched record of activity 2 that athlete 8's detail request wrote
\* after it
C31_Witness ==
    /\ listing = << <<2>> >>
    /\ proc["syncA"].pc = "completed"
    /\ proc["syncA"].storedCount >= 1
    /\ 2 \in DOMAIN store
    /\ store[2].athlete_id = "8"
    /\ "elevation_gain" \in DOMAIN store[2]
    /\ proc[WriterDetail].pc = "closed"
    /\ proc[WriterDetail].job.status = "returned"

\* the lookup of a detail request has answered with a record of more than 20
\* coordinates: the request is closed with that record, whoever asks, and
\* no auth record has been looked up
C32_HitStep ==
    [][\A p \in DetailProcs :
          (/\ proc[p].pc = "getActivity" /\ proc'[p].pc # "getActivity"
           /\ proc'[p].error # "store error"
           /\ storeHit(store, proc[p].id))
          => /\ ~falsy(proc[p].athlete_id)
             /\ proc'[p].pc = "closed"
             /\ LastEvent(proc'[p]) = Respond(200, store[proc[p].id])
             /\ ~hasEvent(proc'[p], "auth_get")
             /\ proc'[p].accessToken = Null
             /\ auth' = auth /\ store' = store]_vars

\* a request answered from the store has made the lookup and nothing else
C32_HitLog ==
    \A p \in DetailProcs :
        ServedFromStore(proc[p])
        => /\ Len(proc[p].log) = 2
           /\ proc[p].log[1] = StoreGet(proc[p].id)
           /\ Answer(proc[p]).body.id = proc[p].id

\* C32: the store-hit branch of the detail request answers with the stored
\* record for every non-empty athlete_id of the request, without an auth
\* lookup and without comparing the record's athlete with the requester
C32_HitIgnoresRequester == C32_HitStep /\ []C32_HitLog

\* C32 witness: athlete 8, who has no auth record, is answered with a record
\* that belongs to athlete 7
C32_Witness ==
    \E p \in DetailProcs :
        /\ ServedFromStore(proc[p])
        /\ proc[p].athlete_id = JsStr("8")
        /\ "8" \notin DOMAIN auth
        /\ Answer(proc[p]).body.athlete_id = "7"
        /\ Len(Answer(proc[p]).body.coordinates) > 20

\* how many points the summary polyline of an input encodes
SummaryPoints(activity) ==
    CHOOSE n \in {0, 2, 3} : activity.map.summary_polyline = Poly(HeadBahrain, n)

\* C33: the list path decodes the summary polyline only.  An activity that
\* passes the virtual and type checks is skipped for having no GPS data when
\* both polylines are missing, skipped for fewer than 3 coordinates when the
\* summary polyline is missing or short, whatever the full polyline holds,
\* and kept otherwise; a kept record has the coordinates of the summary
\* polyline and one country lookup, at the first of them
C33_SummaryOnly ==
    LET r == proc["list"]
        s == SummaryPoints(Input)
        f == FullPoints(Input)
    IN  r.pc = "done" =>
          /\ r.decision \notin {"skip_virtual", "skip_type"}
               => r.decision = IF s = 0 /\ f = 0 THEN "skip_no_gps"
                               ELSE IF s < 3 THEN "skip_few_coordinates"
                               ELSE "keep"
          /\ r.decision = "keep"
               => /\ Len(r.output.coordinates) = s
                  /\ r.output.coordinates[1] =
                        [lat |-> StartBahrain[1], lng |-> StartBahrain[2]]
                  /\ r.point = StartBahrain
                  /\ r.output.country = Null
          /\ r.decision # "keep" => r.point = <<>> /\ r.output = <<>>

\* C33 witness: an outdoor run with a full polyline of 3 points and no
\* summary polyline has been skipped for too few coordinates
C33_Witness ==
    /\ proc["list"].pc = "done"
    /\ proc["list"].decision = "skip_few_coordinates"
    /\ Input.map.summary_polyline = <<>>
    /\ FullPoints(Input) = 3
    /\ Input.type = "Run"

\* in a sync run the country lookups are one per kept record, at the point
\* the list view names for it
SyncLookupsOnce ==
    LET r == proc[BulkProc]
        n == Len(r.activities)
    IN  /\ Cardinality(Events(r, "geocode")) = n + (IF r.pc = "getCountry" THEN 1 ELSE 0)
        /\ \A k \in 1..n :
              \E j \in Events(r, "geocode") :
                  /\ r.log[j].point = ListTable[r.activities[k].id].point
                  /\ Cardinality({i \in Events(r, "geocode") : i <= j}) = k

\* the call returns
C34_Returns == (proc.pc = "while") ~> (proc.pc = "returned")

\* a pass of the outer loop that ends has read at least two characters
C34_Advance ==
    [][(proc.pc = "lngGroup" /\ proc'.pc = "while")
         => /\ proc'.index >= proc.start + 2
            /\ Len(proc'.coordinates) = Len(proc.coordinates) + 1]_vars

\* a read at or past the end of the string closes the group
C34_PastEnd ==
    [][(proc.pc \in {"latGroup", "lngGroup"} /\ proc.index >= Len(proc.encoded))
         => proc'.pc # proc.pc]_vars

\* at most half the length, rounded up, points; the position never runs
\* further than one pass beyond the string
C34_Bounded ==
    /\ proc.pc \in {"idle", "while", "latGroup", "lngGroup", "returned"}
    /\ 2 * Len(proc.coordinates) <= Len(proc.encoded) + 1
    /\ proc.index <= Len(proc.encoded) + 2
    /\ proc.pc = "returned" => proc.coordinates = decodePolyline(proc.encoded)

\* C34: decodePolyline returns on every string, well-formed or not: each
\* pass of the outer loop reads at least two characters, a read past the
\* end closes the current group, and the points returned number at most
\* half the length of the string, rounded up
C34_Terminates == C34_Returns /\ C34_Advance /\ C34_PastEnd /\ []C34_Bounded

\* C34 witness: the call has returned two points from a string of three
\* characters that ends in the middle of a point
C34_Witness ==
    /\ proc.pc = "returned"
    /\ Len(proc.encoded) = 3
    /\ Len(proc.coordinates) = 2
    /\ proc.index = 4

=============================================================================
